---- MODULE Spec2Model ----
(***************************************************************************)
(* A model of journal_verifier: the line-oriented parser of a journal      *)
(* document (parsing.py), its problem catalog (problems.py), the solution  *)
(* catalog (solutions.py) and the autofix engine (autofix.py, fixing.py).  *)
(*                                                                         *)
(* A line of text is a sequence of lexical units.  Every character the     *)
(* regular expressions of constants.py tell apart is a unit of its own:    *)
(* "#", " ", "\t", "-", "/", "(", ")", ":", the digits "0".."9", and the   *)
(* arrow glyphs, written "U+2B06", "U+2B07", "U+FE0F".  Any other unit is  *)
(* a run of ordinary text, such as "Signals" or "Monday".                  *)
(***************************************************************************)
EXTENDS Integers, Sequences, FiniteSets, TLC

VARIABLES
    lines,      \* the caller's line buffer: the loaded document
    phase,      \* "loaded", "parsed", then "covered" or "raised", or
                \* "fixed", or "fixing" and then "refixed" or "reparsed";
                \* after "covered": "dated", "redated", "dates parsed"
    entries,    \* the Entry list of the last parse_journal call
    problems,   \* the document-level Problem list of the last parse_journal call
    context,    \* FixContext.lines: the working buffer of the fix engine
    results,    \* the FixResults the fix engine has returned so far
    before,     \* the working buffer as it was when the last call began
    coverage    \* the mismatches, the missing dates and the coverage problems
                \* of the last date-coverage pass, with the range it was
                \* asked for

vars == <<lines, phase, entries, problems, context, results, before, coverage>>

\* Python's None where a line number is expected
None == -1

(***************************************************************************)
(* Sequences and characters                                                *)
(***************************************************************************)
SetMin(S) == CHOOSE x \in S : \A y \in S : x <= y

SetMax(S) == CHOOSE x \in S : \A y \in S : x >= y

\* str.isspace for one unit
IsSpace(c) == c \in {" ", "\t"}

\* the class \d of the regular expressions
IsDigit(c) == c \in {"0", "1", "2", "3", "4", "5", "6", "7", "8", "9"}

DigitVal(c) ==
    CASE c = "0" -> 0 [] c = "1" -> 1 [] c = "2" -> 2 [] c = "3" -> 3
      [] c = "4" -> 4 [] c = "5" -> 5 [] c = "6" -> 6 [] c = "7" -> 7
      [] c = "8" -> 8 [] c = "9" -> 9

\* the class \w: a run of text or a digit, as opposed to punctuation and space
IsWord(c) == c \notin {"#", " ", "\t", "-", "/", "(", ")", ":", "U+2B06", "U+2B07", "U+FE0F"}

\* str.lower on a run of text
lower(c) ==
    CASE c \in {"Monday", "MONDAY"} -> "monday"
      [] c \in {"Tuesday", "TUESDAY"} -> "tuesday"
      [] c \in {"Wednesday", "WEDNESDAY"} -> "wednesday"
      [] c \in {"Thursday", "THURSDAY"} -> "thursday"
      [] c \in {"Friday", "FRIDAY"} -> "friday"
      [] c \in {"Saturday", "SATURDAY"} -> "saturday"
      [] c \in {"Sunday", "SUNDAY"} -> "sunday"
      [] c \in {"Short-term", "SHORT-TERM"} -> "short-term"
      [] c \in {"Long-term", "LONG-TERM"} -> "long-term"
      [] c \in {"Helped today", "HELPED TODAY"} -> "helped today"
      [] c \in {"Hurt today", "HURT TODAY"} -> "hurt today"
      [] OTHER -> c

\* str.strip: the line without its leading and trailing whitespace
strip(s) ==
    LET ink == {i \in 1..Len(s) : ~IsSpace(s[i])}
    IN  IF ink = {} THEN <<>> ELSE SubSeq(s, SetMin(ink), SetMax(ink))

\* the first index from i on that holds no whitespace (Len(s) + 1 if none): \s*
SkipSpaces(s, i) ==
    LET stop == {j \in i..Len(s) : ~IsSpace(s[j])}
    IN  IF stop = {} THEN Len(s) + 1 ELSE SetMin(stop)

\* the first index from i on that holds no digit (Len(s) + 1 if none): \d*
SkipDigits(s, i) ==
    LET stop == {j \in i..Len(s) : ~IsDigit(s[j])}
    IN  IF stop = {} THEN Len(s) + 1 ELSE SetMin(stop)

\* list slicing, 0-based and half-open: s[from:to]
Slice(s, from, to) == SubSeq(s, from + 1, to)

\* list splicing: s[at:at] = payload
Splice(s, at, payload) == Slice(s, 0, at) \o payload \o Slice(s, at, Len(s))

\* the concatenation of a sequence of sequences
RECURSIVE Flatten(_)
Flatten(ss) == IF ss = <<>> THEN <<>> ELSE Head(ss) \o Flatten(Tail(ss))

(***************************************************************************)
(* constants.py: the regular expressions.  A match is a record with        *)
(* `matched` and the groups; a group that did not take part (None) is the  *)
(* empty sequence, which no group that took part can be.                   *)
(***************************************************************************)
NoMatch == [matched |-> FALSE]

\* the index of the last unit that is no whitespace, 0 if there is none
LastInk(s) ==
    IF \A i \in 1..Len(s) : IsSpace(s[i]) THEN 0
    ELSE SetMax({i \in 1..Len(s) : ~IsSpace(s[i])})

\* DAY_HEADER_RE on a line whose last unit of ink is at e
DayHeaderMatch(line, e) ==
        IF /\ e >= 17
           /\ line[1] = "#" /\ line[2] = "#" /\ line[3] = " "
           /\ \A i \in {4, 5, 6, 7, 9, 10, 12, 13} : IsDigit(line[i])
           /\ line[8] = "-" /\ line[11] = "-"
           /\ line[14] = " " /\ line[15] = "("
           /\ line[e] = ")"
           /\ \A i \in 16..(e - 1) : line[i] # ")"
        THEN [matched |-> TRUE, g1 |-> SubSeq(line, 4, 13), g2 |-> SubSeq(line, 16, e - 1)]
        ELSE NoMatch

\* ^## (\d{4}-\d{2}-\d{2}) \(([^)]+)\)\s*$
DAY_HEADER_RE(line) == DayHeaderMatch(line, LastInk(line))

\* the number of "#" the line begins with
Hashes(line) ==
    IF \A i \in 1..Len(line) : line[i] = "#" THEN Len(line)
    ELSE SetMin({i \in 1..Len(line) : line[i] # "#"}) - 1

\* HEADING_RE on a line that begins with n "#" and has its last ink at e;
\* the lazy (.+?) takes one unit at least
HeadingMatch(line, n, e) ==
    IF n \in {2, 3} /\ Len(line) >= n + 2 /\ line[n + 1] = " "
    THEN [matched |-> TRUE,
          g1 |-> IF n = 2 THEN "##" ELSE "###",
          g2 |-> SubSeq(line, n + 2, IF e >= n + 2 THEN e ELSE n + 2)]
    ELSE NoMatch

\* ^(#{2,3}) (.+?)\s*$
HEADING_RE(line) == HeadingMatch(line, Hashes(line), LastInk(line))

\* BULLET_RE on a line whose first ink is at a
BulletMatch(line, a) ==
    IF a <= Len(line) /\ line[a] = "-"
    THEN [matched |-> TRUE, g1 |-> SubSeq(line, SkipSpaces(line, a + 1), Len(line))]
    ELSE NoMatch

\* ^\s*-\s*(.*)$
BULLET_RE(line) == BulletMatch(line, SkipSpaces(line, 1))

\* the end of SCORE_RE, from the "/" expected at d on
ScoreTail(line, d) ==
    /\ d <= Len(line) /\ line[d] = "/"
    /\ SkipSpaces(line, d + 1) <= Len(line)
    /\ line[SkipSpaces(line, d + 1)] = "5"
    /\ \A i \in (SkipSpaces(line, d + 1) + 1)..Len(line) : IsSpace(line[i])

\* SCORE_RE on a line with its "-" at a and the digits, if any, in b..c-1
ScoreMatch(line, a, b, c) ==
    IF a <= Len(line) /\ line[a] = "-" /\ ScoreTail(line, SkipSpaces(line, c))
    THEN [matched |-> TRUE, g1 |-> IF c > b THEN SubSeq(line, b, c - 1) ELSE <<>>]
    ELSE NoMatch

\* the digits of SCORE_RE begin at b
ScoreFrom(line, a, b) == ScoreMatch(line, a, b, SkipDigits(line, b))

\* the "-" of SCORE_RE is at a
ScoreAt(line, a) == ScoreFrom(line, a, SkipSpaces(line, a + 1))

\* ^\s*-\s*(\d+)?\s*/\s*5\s*$
SCORE_RE(line) == ScoreAt(line, SkipSpaces(line, 1))

\* the index after the glyph and its optional U+FE0F, if the glyph is at b
AfterGlyph(line, b, glyph) ==
    IF b <= Len(line) /\ line[b] = glyph
    THEN (IF b + 1 <= Len(line) /\ line[b + 1] = "U+FE0F" THEN b + 2 ELSE b + 1)
    ELSE Len(line) + 2

\* the label at d, whatever its case, then \s*:
LabelAt(line, d, label) ==
    /\ d <= Len(line) /\ lower(line[d]) = label
    /\ SkipSpaces(line, d + 1) <= Len(line)
    /\ line[SkipSpaces(line, d + 1)] = ":"

\* the "-" at a, the glyph (if the expression has one) expected at b
LabelFrom(line, a, b, glyph, label) ==
    /\ a <= Len(line) /\ line[a] = "-"
    /\ IF glyph = "" THEN LabelAt(line, b, label)
       ELSE LabelAt(line, SkipSpaces(line, AfterGlyph(line, b, glyph)), label)

LabelDash(line, a, glyph, label) == LabelFrom(line, a, SkipSpaces(line, a + 1), glyph, label)

\* ^\s*-\s*<glyph>(U+FE0F)?\s*<label>\s*:  with re.IGNORECASE; the two
\* expressions that have no glyph pass "" for it
LabelMatch(line, glyph, label) == LabelDash(line, SkipSpaces(line, 1), glyph, label)

UP_ARROW == "U+2B06"

DOWN_ARROW == "U+2B07"

HELPED_RE(line) == LabelMatch(line, UP_ARROW, "helped today")

HURT_RE(line) == LabelMatch(line, DOWN_ARROW, "hurt today")

SHORT_TERM_RE(line) == LabelMatch(line, "", "short-term")

LONG_TERM_RE(line) == LabelMatch(line, "", "long-term")

\* ^(Monday|Tuesday|Wednesday|Thursday|Friday|Saturday|Sunday)\b with re.IGNORECASE
WEEKDAY_PREFIX_RE(text) ==
    IF /\ Len(text) >= 1
       /\ lower(text[1]) \in {"monday", "tuesday", "wednesday", "thursday",
                              "friday", "saturday", "sunday"}
       /\ (Len(text) >= 2 => ~IsWord(text[2]))
    THEN [matched |-> TRUE, g1 |-> text[1]]
    ELSE NoMatch

(***************************************************************************)
(* constants.py: the fixed template                                        *)
(***************************************************************************)
EXPECTED_SECTIONS ==
    << <<"###", <<"What happened today">> >>,
       <<"###", <<"What I'm grateful for">> >>,
       <<"###", <<"What I'm looking forward to">> >>,
       <<"##", <<"Signals">> >>,
       <<"##", <<"One adjustment", " ", "(", "tomorrow", ")">> >>,
       <<"###", <<"Final score", " ", "(", "1", "/", "5", ")">> >> >>

EXPECTED_TITLES == [i \in 1..Len(EXPECTED_SECTIONS) |-> EXPECTED_SECTIONS[i][2]]

\* `title in EXPECTED_INDEX`, `title in EXPECTED_LEVEL`
IsExpected(title) == \E i \in 1..Len(EXPECTED_TITLES) : EXPECTED_TITLES[i] = title

\* EXPECTED_INDEX[title], 0-based as enumerate() numbers it
EXPECTED_INDEX(title) ==
    (CHOOSE i \in 1..Len(EXPECTED_TITLES) : EXPECTED_TITLES[i] = title) - 1

EXPECTED_LEVEL(title) == EXPECTED_SECTIONS[EXPECTED_INDEX(title) + 1][1]

BULLET_REQUIRED == {EXPECTED_TITLES[1], EXPECTED_TITLES[2], EXPECTED_TITLES[5]}

\* SECTION_TEMPLATES.get(title, [])
SECTION_TEMPLATES(title) ==
    CASE title = EXPECTED_TITLES[1] -> << <<"-", " ">>, <<"-", " ">>, <<"-", " ">>, <<"-", " ">> >>
      [] title = EXPECTED_TITLES[2] -> << <<"-", " ">>, <<"-", " ">>, <<"-", " ">> >>
      [] title = EXPECTED_TITLES[3] -> << <<"-", " ", "Short-term", ":", " ">>,
                                          <<"-", " ", "Long-term", ":", " ">> >>
      [] title = EXPECTED_TITLES[4] -> << <<"-", " ", "U+2B06", "U+FE0F", " ", "Helped today", ":">>,
                                          <<"-", " ", "U+2B07", "U+FE0F", " ", "Hurt today", ":">> >>
      [] title = EXPECTED_TITLES[5] -> << <<"-", " ">> >>
      [] title = EXPECTED_TITLES[6] -> << <<"-", " ", "/", "5">> >>
      [] OTHER -> <<>>

\* VALID_WEEKDAYS[key], for a key of VALID_WEEKDAYS
VALID_WEEKDAYS(key) ==
    CASE key = "monday" -> "Monday" [] key = "tuesday" -> "Tuesday"
      [] key = "wednesday" -> "Wednesday" [] key = "thursday" -> "Thursday"
      [] key = "friday" -> "Friday" [] key = "saturday" -> "Saturday"
      [] key = "sunday" -> "Sunday"

(***************************************************************************)
(* problems.py: a Problem is its code, its line number (None for a         *)
(* document-wide problem) and its context; the message is a rendering of   *)
(* the same fields and is not kept.                                        *)
(***************************************************************************)
Problem(code, line_no, ctx) == [code |-> code, line_no |-> line_no, context |-> ctx]

\* problem.context.get(key): the value, or <<>> where Python has None
ContextGet(problem, key) ==
    IF key \in DOMAIN problem.context THEN problem.context[key] ELSE <<>>

\* the number of problems of a list that have the given code
CountCode(ps, code) == Cardinality({i \in 1..Len(ps) : ps[i].code = code})

(***************************************************************************)
(* parsing.py                                                              *)
(***************************************************************************)
IsRule(line) == strip(line) = <<"-", "-", "-">>

_content_lines(ls) == SelectSeq(ls, LAMBDA line : ~IsRule(line))

_has_bullet(ls) == \E i \in 1..Len(ls) : BULLET_RE(ls[i]).matched

\* a variant of the condition below that takes any bullet for content
MeaningfulAnyBullet(line, match) == strip(line) # <<>>

\* the condition of the loop of _has_meaningful_content, for one line and
\* its BULLET_RE match
Meaningful(line, match) ==
    /\ strip(line) # <<>>
    /\ match.matched => strip(match.g1) # <<>>

_has_meaningful_content(ls) == \E i \in 1..Len(ls) : Meaningful(ls[i], BULLET_RE(ls[i]))

\* dict lookup in entry.sections, a list of SectionInfo in insertion order
HasSection(sections, title) == \E i \in 1..Len(sections) : sections[i].title = title

GetSection(sections, title) ==
    sections[CHOOSE i \in 1..Len(sections) : sections[i].title = title]

\* a variant of the condition below that takes the section for its content
HasMainSection(sections) == HasSection(sections, EXPECTED_TITLES[1])

_entry_has_main_content(sections) ==
    /\ HasSection(sections, EXPECTED_TITLES[1])
    /\ _has_meaningful_content(
           _content_lines(GetSection(sections, EXPECTED_TITLES[1]).content_lines))

\* the ascending sequence of a finite set of integers
RECURSIVE Ascending(_)
Ascending(S) ==
    IF S = {} THEN <<>> ELSE <<SetMin(S)>> \o Ascending(S \ {SetMin(S)})

\* one (idx, level, title) of _collect_headings, idx 0-based
HeadingOf(idx, match) == [idx |-> idx, level |-> match.g1, title |-> strip(match.g2)]

\* the headings of a block whose heading lines are at the indices `at`
HeadingsAt(block, at) == [k \in 1..Len(at) |-> HeadingOf(at[k] - 1, HEADING_RE(block[at[k]]))]

_collect_headings(block) ==
    HeadingsAt(block, Ascending({i \in 1..Len(block) : HEADING_RE(block[i]).matched}))

_unexpected_heading_problem(title, line_no) ==
    Problem("unexpected_heading", line_no, [heading_title |-> title])

_heading_level_problem(title, expected, found, line_no) ==
    Problem("heading_level", line_no,
            [heading_title |-> title, expected_level |-> expected, found_level |-> found])

_duplicate_heading_problem(title, line_no) ==
    Problem("duplicate_heading", line_no, [heading_title |-> title])

_heading_order_problem(title, line_no) ==
    Problem("heading_order", line_no, [heading_title |-> title])

\* a variant of the comparison below that also rejects the expected position
OutOfOrderOrAt(section_index, expected_pos) == section_index <= expected_pos

\* whether section_index is out of order against the running expected_pos
OutOfOrder(section_index, expected_pos) == section_index < expected_pos

\* a variant of the update below that forgets the positions passed before
NextExpectedWithoutMax(expected_pos, section_index) == section_index + 1

\* a variant of the update below that stops at the index of the heading
NextExpectedAtIndex(expected_pos, section_index) ==
    IF expected_pos >= section_index THEN expected_pos ELSE section_index

\* the running expected_pos after a recognized heading
NextExpected(expected_pos, section_index) ==
    IF expected_pos >= section_index + 1 THEN expected_pos ELSE section_index + 1

\* the three checks of _process_heading on a recognized heading
ExpectedHeadingProblems(level, title, line_no, seen_titles, expected_pos) ==
    (IF level # EXPECTED_LEVEL(title)
     THEN <<_heading_level_problem(title, EXPECTED_LEVEL(title), level, line_no)>>
     ELSE <<>>)
    \o (IF title \in seen_titles
        THEN <<_duplicate_heading_problem(title, line_no)>>
        ELSE <<>>)
    \o (IF OutOfOrder(EXPECTED_INDEX(title), expected_pos)
        THEN <<_heading_order_problem(title, line_no)>>
        ELSE <<>>)

\* one heading: the problems it adds, the grown seen_titles, and the
\* returned (is_expected, next_expected)
_process_heading(rel_idx, level, title, offset, seen_titles, expected_pos) ==
    IF ~IsExpected(title)
    THEN [is_expected |-> FALSE, expected_pos |-> expected_pos,
          seen_titles |-> seen_titles,
          problems |-> <<_unexpected_heading_problem(title, offset + rel_idx + 1)>>]
    ELSE [is_expected |-> TRUE,
          expected_pos |-> NextExpected(expected_pos, EXPECTED_INDEX(title)),
          seen_titles |-> seen_titles \cup {title},
          problems |-> ExpectedHeadingProblems(level, title, offset + rel_idx + 1,
                                               seen_titles, expected_pos)]

\* the state of the loop of _validate_headings after heading h gave r
Validated(acc, h, r) ==
    [seen_titles |-> r.seen_titles,
     expected_pos |-> r.expected_pos,
     filtered |-> IF r.is_expected THEN Append(acc.filtered, h) ELSE acc.filtered,
     problems |-> acc.problems \o r.problems]

ValidateOne(acc, h, offset) ==
    Validated(acc, h, _process_heading(h.idx, h.level, h.title, offset,
                                       acc.seen_titles, acc.expected_pos))

\* the loop of _validate_headings from heading k on
RECURSIVE ValidateFrom(_, _, _, _)
ValidateFrom(headings, k, offset, acc) ==
    IF k > Len(headings) THEN acc
    ELSE ValidateFrom(headings, k + 1, offset, ValidateOne(acc, headings[k], offset))

_validate_headings(headings, offset) ==
    ValidateFrom(headings, 1, offset,
        [seen_titles |-> {}, expected_pos |-> 0, filtered |-> <<>>, problems |-> <<>>])

\* a variant of the problem below that holds the 0-based index of the header
MissingSectionAtIndex(entry, title) ==
    Problem("missing_section", entry.line_no - 1,
            [section_title |-> title, date |-> entry.date_str,
             weekday_header |-> entry.weekday_header])

_missing_section_problem(entry, title) ==
    Problem("missing_section", entry.line_no,
            [section_title |-> title, date |-> entry.date_str,
             weekday_header |-> entry.weekday_header])

\* the problems of the titles of `absent`, in their order
MissingProblems(entry, absent) ==
    [i \in 1..Len(absent) |-> _missing_section_problem(entry, absent[i])]

_check_missing_sections(entry, seen_titles) ==
    MissingProblems(entry, SelectSeq(EXPECTED_TITLES, LAMBDA title : title \notin seen_titles))

SectionInfo(title, level, line_no, content_lines) ==
    [title |-> title, level |-> level, line_no |-> line_no, content_lines |-> content_lines]

\* entry.sections[title] = info: a dict keeps a key's first position and its
\* last value
DictSet(sections, info) ==
    IF HasSection(sections, info.title)
    THEN [i \in 1..Len(sections) |->
             IF sections[i].title = info.title THEN info ELSE sections[i]]
    ELSE Append(sections, info)

\* the SectionInfo of heading k: its content runs to the next recognized
\* heading, or to the end of the block
RecordOne(headings, k, block, offset) ==
    SectionInfo(headings[k].title, headings[k].level, offset + headings[k].idx + 1,
                Slice(block, headings[k].idx + 1,
                      IF k + 1 <= Len(headings) THEN headings[k + 1].idx ELSE Len(block)))

\* the loop of _record_sections from heading k on; `headings` is ascending in
\* idx, as _validate_headings leaves it, so the sort changes nothing
RECURSIVE RecordFrom(_, _, _, _, _)
RecordFrom(headings, k, block, offset, sections) ==
    IF k > Len(headings) THEN sections
    ELSE RecordFrom(headings, k + 1, block, offset,
                    DictSet(sections, RecordOne(headings, k, block, offset)))

_record_sections(headings, block, offset) == RecordFrom(headings, 1, block, offset, <<>>)

\* a problem of a section that carries the section's title
SectionProblem(code, section) ==
    Problem(code, section.line_no, [section_title |-> section.title])

_validate_looking_forward(section, content) ==
    (IF ~\E i \in 1..Len(content) : SHORT_TERM_RE(content[i])
     THEN <<SectionProblem("missing_short_term", section)>>
     ELSE <<>>)
    \o (IF ~\E i \in 1..Len(content) : LONG_TERM_RE(content[i])
        THEN <<SectionProblem("missing_long_term", section)>>
        ELSE <<>>)

_validate_signals(section, content) ==
    (IF ~\E i \in 1..Len(content) : HELPED_RE(content[i])
     THEN <<SectionProblem("missing_helped", section)>>
     ELSE <<>>)
    \o (IF ~\E i \in 1..Len(content) : HURT_RE(content[i])
        THEN <<SectionProblem("missing_hurt", section)>>
        ELSE <<>>)

\* the decimal value of a run of digits
RECURSIVE Decimal(_)
Decimal(ds) ==
    IF ds = <<>> THEN 0 ELSE 10 * Decimal(SubSeq(ds, 1, Len(ds) - 1)) + DigitVal(ds[Len(ds)])

\* float() of the digits ds under the sign `sign` ("" for none)
FloatOf(sign, ds) ==
    IF ds # <<>> /\ \A i \in 1..Len(ds) : IsDigit(ds[i])
    THEN [ok |-> TRUE, val |-> IF sign = "-" THEN 0 - Decimal(ds) ELSE Decimal(ds)]
    ELSE [ok |-> FALSE]

\* float(raw): a ValueError (ok = FALSE) unless raw is digits under an
\* optional sign
float(raw) ==
    IF Len(raw) >= 1 /\ raw[1] \in {"-", "+"}
    THEN FloatOf(raw[1], Tail(raw))
    ELSE FloatOf("", raw)

\* a variant of the range below that leaves 5 out
OutOfRangeBelowFive(score) == ~(0 <= score /\ score < 5)

\* whether score is outside the range _validate_score_line accepts
OutOfRange(score) == ~(0 <= score /\ score <= 5)

\* the try/except and the range check of _validate_score_line on a numerator
\* `raw` whose float() is `score`
ScoreProblems(section, raw, score) ==
    IF ~score.ok
    THEN <<Problem("invalid_score", section.line_no, [score |-> raw])>>
    ELSE IF OutOfRange(score.val)
    THEN <<Problem("score_out_of_range", section.line_no, [score |-> raw])>>
    ELSE <<>>

\* _validate_score_line from the SCORE_RE match on
ScoreLineProblems(section, match) ==
    IF ~match.matched THEN <<>>
    ELSE IF match.g1 = <<>> THEN <<>>
    ELSE ScoreProblems(section, match.g1, float(match.g1))

_validate_score_line(section, line) == ScoreLineProblems(section, SCORE_RE(line))

\* `match and match.group(1)`
HasNumerator(match) == match.matched /\ match.g1 # <<>>

\* the lines of the section that carry a numerator
ActualScores(content) == SelectSeq(content, LAMBDA line : HasNumerator(SCORE_RE(line)))

\* _validate_score from the list of score lines on
ScoreSectionProblems(sections, section, actual_scores) ==
    IF actual_scores # <<>>
    THEN Flatten([i \in 1..Len(actual_scores) |->
                     _validate_score_line(section, actual_scores[i])])
    ELSE IF _entry_has_main_content(sections)
         THEN <<SectionProblem("missing_score", section)>>
         ELSE <<>>

_validate_score(sections, section, content) ==
    ScoreSectionProblems(sections, section, ActualScores(content))

\* the body of the loop of _validate_section_content on a section whose
\* content lines are `content`
ValidateContent(sections, section, content) ==
    (IF section.title \in BULLET_REQUIRED /\ ~_has_bullet(content)
     THEN <<SectionProblem("missing_bullet", section)>>
     ELSE <<>>)
    \o (IF section.title = EXPECTED_TITLES[3] THEN _validate_looking_forward(section, content)
        ELSE IF section.title = EXPECTED_TITLES[4] THEN _validate_signals(section, content)
        ELSE IF section.title = EXPECTED_TITLES[6] THEN _validate_score(sections, section, content)
        ELSE <<>>)

ValidateSection(sections, section) ==
    ValidateContent(sections, section, _content_lines(section.content_lines))

_validate_section_content(sections) ==
    Flatten([i \in 1..Len(sections) |-> ValidateSection(sections, sections[i])])

\* no parsed date: Entry.date = None
NoDate == [year |-> 0, month |-> 0, day |-> 0]

IsLeap(year) == (year % 4 = 0 /\ year % 100 # 0) \/ year % 400 = 0

DaysInMonth(year, month) ==
    IF month = 2 THEN (IF IsLeap(year) THEN 29 ELSE 28)
    ELSE IF month \in {4, 6, 9, 11} THEN 30 ELSE 31

\* date(year, month, day); NoDate where it raises ValueError
DateOf(year, month, day) ==
    IF /\ year >= 1
       /\ month >= 1 /\ month <= 12
       /\ day >= 1 /\ day <= DaysInMonth(year, month)
    THEN [year |-> year, month |-> month, day |-> day]
    ELSE NoDate

\* date.fromisoformat on a string of the shape \d{4}-\d{2}-\d{2}
date_fromisoformat(date_str) ==
    DateOf(Decimal(SubSeq(date_str, 1, 4)),
           Decimal(SubSeq(date_str, 6, 7)),
           Decimal(SubSeq(date_str, 9, 10)))

\* one (idx, date string, weekday label) of _find_headers, idx 0-based
HeaderOf(idx, match) ==
    [idx |-> idx, date_str |-> match.g1, weekday_header |-> strip(match.g2)]

\* the headers of a document whose day-header lines are at the indices `at`
HeadersAt(ls, at) == [k \in 1..Len(at) |-> HeaderOf(at[k] - 1, DAY_HEADER_RE(ls[at[k]]))]

_find_headers(ls) ==
    HeadersAt(ls, Ascending({i \in 1..Len(ls) : DAY_HEADER_RE(ls[i]).matched}))

\* `match.group(1) if match else None`, "" where Python has None
WeekdayOf(match) == IF ~match.matched THEN "" ELSE match.g1

\* the weekday name as written
_extract_weekday(weekday_header) == WeekdayOf(WEEKDAY_PREFIX_RE(strip(weekday_header)))

IsWeekdayKey(key) ==
    key \in {"monday", "tuesday", "wednesday", "thursday", "friday", "saturday", "sunday"}

\* the problems of a header whose date parsed to `day`
DateProblems(day, date_str, line_no) ==
    IF day = NoDate
    THEN <<Problem("invalid_date", line_no, [date |-> date_str])>>
    ELSE <<>>

\* the weekday half of _parse_entry_header
WeekdayResult(day, weekday_name, weekday_header, line_no, date_problems) ==
    IF weekday_name = "" \/ ~IsWeekdayKey(lower(weekday_name))
    THEN [date |-> day, weekday_name |-> "",
          problems |-> Append(date_problems,
                              Problem("invalid_weekday", line_no,
                                      [weekday_header |-> weekday_header]))]
    ELSE [date |-> day, weekday_name |-> VALID_WEEKDAYS(lower(weekday_name)),
          problems |-> date_problems]

\* _parse_entry_header once the date is parsed
HeaderResult(day, date_str, weekday_header, line_no) ==
    WeekdayResult(day, _extract_weekday(weekday_header), weekday_header, line_no,
                  DateProblems(day, date_str, line_no))

\* the date, the canonical weekday name ("" for None) and the problems of a
\* day header
_parse_entry_header(date_str, weekday_header, line_no) ==
    HeaderResult(date_fromisoformat(date_str), date_str, weekday_header, line_no)

\* the result of _parse_entry_sections once the sections are recorded
SectionsResult(entry, validated, sections) ==
    [sections |-> sections,
     problems |-> validated.problems
                  \o _check_missing_sections(entry, validated.seen_titles)
                  \o _validate_section_content(sections)]

\* _parse_entry_sections once the headings are validated
ValidatedSections(entry, block, offset, validated) ==
    SectionsResult(entry, validated, _record_sections(validated.filtered, block, offset))

\* the sections and the problems of an entry's block
_parse_entry_sections(entry, block, offset) ==
    ValidatedSections(entry, block, offset,
                      _validate_headings(_collect_headings(block), offset))

\* Entry(...) as _build_entry constructs it, before sections and problems
Entry(header, parsed) ==
    [date |-> parsed.date,
     date_str |-> header.date_str,
     weekday_header |-> header.weekday_header,
     weekday_name |-> parsed.weekday_name,
     line_no |-> header.idx + 1]

\* the finished Entry
EntryWith(entry, parsed, body) ==
    [date |-> entry.date,
     date_str |-> entry.date_str,
     weekday_header |-> entry.weekday_header,
     weekday_name |-> entry.weekday_name,
     line_no |-> entry.line_no,
     sections |-> body.sections,
     problems |-> parsed.problems \o body.problems]

\* _build_entry from the Entry on: the block is lines[idx + 1:end]
EntryBody(ls, header, end, entry, parsed) ==
    EntryWith(entry, parsed,
              _parse_entry_sections(entry, Slice(ls, header.idx + 1, end), header.idx + 1))

\* _build_entry once the header is parsed
ParsedEntry(ls, header, end, parsed) ==
    EntryBody(ls, header, end, Entry(header, parsed), parsed)

_build_entry(ls, header, end) ==
    ParsedEntry(ls, header, end,
                _parse_entry_header(header.date_str, header.weekday_header, header.idx + 1))

_build_entries(ls, headers) ==
    [k \in 1..Len(headers) |->
        _build_entry(ls, headers[k],
                     IF k + 1 <= Len(headers) THEN headers[k + 1].idx ELSE Len(ls))]

\* the digit of a number below ten
Digit(n) == CHOOSE c \in {"0", "1", "2", "3", "4", "5", "6", "7", "8", "9"} : DigitVal(c) = n

\* str(n) for n >= 0
RECURSIVE str(_)
str(n) == IF n < 10 THEN <<Digit(n)>> ELSE str(n \div 10) \o <<Digit(n % 10)>>

\* the format %02d, resp. %04d, of a number
Padded(digits, width) ==
    [i \in 1..(width - Len(digits)) |-> "0"] \o digits

\* date.isoformat
isoformat(day) ==
    Padded(str(day.year), 4) \o <<"-">> \o Padded(str(day.month), 2)
        \o <<"-">> \o Padded(str(day.day), 2)

\* a variant of the lookup below that takes the latest entry with the date
SeenDateLatest(es, k) ==
    IF \A j \in 1..(k - 1) : es[j].date # es[k].date THEN None
    ELSE es[SetMax({j \in 1..(k - 1) : es[j].date = es[k].date})].line_no

\* seen_dates[date] when entry k is reached: the header line of the first
\* earlier entry with that date, None if there is none
SeenDate(es, k) ==
    IF \A j \in 1..(k - 1) : es[j].date # es[k].date THEN None
    ELSE es[SetMin({j \in 1..(k - 1) : es[j].date = es[k].date})].line_no

\* the duplicate_date problems of the entries at the indices `repeats`
DuplicateProblems(es, repeats) ==
    [i \in 1..Len(repeats) |->
        Problem("duplicate_date", es[repeats[i]].line_no,
                [date |-> isoformat(es[repeats[i]].date),
                 first_line |-> str(SeenDate(es, repeats[i]))])]

_duplicate_date_problems(es) ==
    DuplicateProblems(es, SelectSeq([k \in 1..Len(es) |-> k],
                                    LAMBDA k : es[k].date # NoDate /\ SeenDate(es, k) # None))

\* the result of parse_journal over the built entries
JournalOf(es) == [entries |-> es, problems |-> _duplicate_date_problems(es)]

\* a variant of the case distinction below without the short-circuit
ParsedJournalWithoutShortCircuit(ls, headers) == JournalOf(_build_entries(ls, headers))

\* parse_journal once the headers are found
ParsedJournal(ls, headers) ==
    IF headers = <<>>
    THEN [entries |-> <<>>, problems |-> <<Problem("no_day_headers", None, <<>>)>>]
    ELSE JournalOf(_build_entries(ls, headers))

parse_journal(ls) == ParsedJournal(ls, _find_headers(ls))

(***************************************************************************)
(* autofix.py: the missing-section fix                                     *)
(***************************************************************************)
\* the index of the next day header after start_idx, len(lines) if none
_entry_end_index(ls, start_idx) ==
    IF \A idx \in (start_idx + 1)..(Len(ls) - 1) : ~DAY_HEADER_RE(ls[idx + 1]).matched
    THEN Len(ls)
    ELSE SetMin({idx \in (start_idx + 1)..(Len(ls) - 1) : DAY_HEADER_RE(ls[idx + 1]).matched})

\* `match and match.group(2).strip() == title`
TitleIs(match, title) == match.matched /\ strip(match.g2) = title

\* a variant of the search below that looks at the first line only
SectionExistsAtTop(block, title) ==
    block # <<>> /\ TitleIs(HEADING_RE(block[1]), title)

_section_exists(block, title) == \E i \in 1..Len(block) : TitleIs(HEADING_RE(block[i]), title)

\* the index of the first `---` line of the block, len(block) if none
_content_end(block) ==
    IF \A idx \in 0..(Len(block) - 1) : ~IsRule(block[idx + 1]) THEN Len(block)
    ELSE SetMin({idx \in 0..(Len(block) - 1) : IsRule(block[idx + 1])})

\* whether a title of the template comes after `title` in it
IsAfter(found, title) == IsExpected(found) /\ EXPECTED_INDEX(found) > EXPECTED_INDEX(title)

\* whether a HEADING_RE match is a recognized heading that comes after `title`
LaterHeading(match, title) == match.matched /\ IsAfter(strip(match.g2), title)

\* the index of the first recognized heading before content_end whose
\* template index exceeds the title's, content_end if none
InsertBefore(block, title, content_end) ==
    IF \A idx \in 0..(content_end - 1) : ~LaterHeading(HEADING_RE(block[idx + 1]), title)
    THEN content_end
    ELSE SetMin({idx \in 0..(content_end - 1) : LaterHeading(HEADING_RE(block[idx + 1]), title)})

_insert_index(block, title) == InsertBefore(block, title, _content_end(block))

_adjust_for_leading_blanks(block, insert_at) ==
    IF insert_at # 0 THEN insert_at
    ELSE IF \A idx \in 0..(Len(block) - 1) : strip(block[idx + 1]) = <<>> THEN Len(block)
    ELSE SetMin({idx \in 0..(Len(block) - 1) : strip(block[idx + 1]) # <<>>})

_needs_blank_before(block, insert_at) ==
    IF insert_at = 0 THEN FALSE ELSE strip(block[insert_at]) # <<>>

_needs_blank_after(block, insert_at) ==
    IF insert_at >= Len(block) THEN FALSE ELSE strip(block[insert_at + 1]) # <<>>

\* f"{EXPECTED_LEVEL[title]} {title}"
HeadingLine(level, title) ==
    (IF level = "##" THEN <<"#", "#">> ELSE <<"#", "#", "#">>) \o <<" ">> \o title

_section_lines(block, insert_at, title) ==
    (IF _needs_blank_before(block, insert_at) THEN << <<>> >> ELSE <<>>)
    \o <<HeadingLine(EXPECTED_LEVEL(title), title)>>
    \o SECTION_TEMPLATES(title)
    \o (IF _needs_blank_after(block, insert_at) THEN << <<>> >> ELSE <<>>)

FixResult(problem, applied, message) ==
    [problem |-> problem, applied |-> applied, message |-> message]

\* a call that leaves the buffer alone
Skipped(ctx_lines, problem, message) ==
    [lines |-> ctx_lines, result |-> FixResult(problem, FALSE, message)]

\* block[insert_at:insert_at] = section_lines
InsertSection(block, insert_at, title) ==
    Splice(block, insert_at, _section_lines(block, insert_at, title))

\* the insertion into the block, and the write-back of the block between
\* the header and the end of the entry
Inserted(ctx_lines, problem, title, start_idx, end_idx, block) ==
    [lines |-> Slice(ctx_lines, 0, start_idx + 1)
               \o InsertSection(block,
                                _adjust_for_leading_blanks(block, _insert_index(block, title)),
                                title)
               \o Slice(ctx_lines, end_idx, Len(ctx_lines)),
     result |-> FixResult(problem, TRUE, "inserted section")]

\* fix_missing_section once the block of the entry is cut out
FixBlock(ctx_lines, problem, title, start_idx, end_idx, block) ==
    IF _section_exists(block, title)
    THEN Skipped(ctx_lines, problem, "section already present")
    ELSE Inserted(ctx_lines, problem, title, start_idx, end_idx, block)

\* fix_missing_section once the end of the entry is found
FixEntry(ctx_lines, problem, title, start_idx, end_idx) ==
    FixBlock(ctx_lines, problem, title, start_idx, end_idx,
             Slice(ctx_lines, start_idx + 1, end_idx))

\* fix_missing_section from the title of the problem on
FixTitle(ctx_lines, problem, title) ==
    IF title = <<>> \/ ~IsExpected(title)
    THEN Skipped(ctx_lines, problem, "missing section title metadata")
    ELSE IF problem.line_no = None
    THEN Skipped(ctx_lines, problem, "missing entry line number")
    ELSE IF problem.line_no - 1 < 0 \/ problem.line_no - 1 >= Len(ctx_lines)
    THEN Skipped(ctx_lines, problem, "entry header line out of range")
    ELSE FixEntry(ctx_lines, problem, title, problem.line_no - 1,
                  _entry_end_index(ctx_lines, problem.line_no - 1))

\* the buffer after the call and the FixResult returned; the message of a
\* success names the title of its problem
fix_missing_section(ctx_lines, problem) ==
    FixTitle(ctx_lines, problem, ContextGet(problem, "section_title"))

(***************************************************************************)
(* solutions.py and fixing.py: the batch                                   *)
(***************************************************************************)
\* the codes SOLUTIONS has a Solution for
SOLUTIONS ==
    {"missing_section", "unexpected_heading", "heading_level", "duplicate_heading",
     "heading_order", "invalid_date", "invalid_weekday", "duplicate_date",
     "missing_bullet", "missing_short_term", "missing_long_term", "missing_helped",
     "missing_hurt", "missing_score", "invalid_score", "score_out_of_range",
     "no_day_headers", "missing_date", "weekday_mismatch"}

\* Solution.auto_fixable of the Solution of a code: the dataclass default,
\* which no Solution of SOLUTIONS overrides
auto_fixable(code) == FALSE

\* whether the Solution of a code carries a fix function: Solution has no
\* such field (reading it is never reached, auto_fixable being false)
apply_fix(code) == FALSE

_fixable_items(ps) ==
    SelectSeq(ps, LAMBDA problem :
        ~(problem.code \notin SOLUTIONS \/ ~auto_fixable(problem.code)
          \/ ~apply_fix(problem.code)))

\* EXPECTED_INDEX.get(title, 999)
IndexOr999(title) == IF IsExpected(title) THEN EXPECTED_INDEX(title) ELSE 999

\* (-line_no, template index), None counting as line 0
_missing_section_key(problem) ==
    << 0 - (IF problem.line_no = None THEN 0 ELSE problem.line_no),
       IndexOr999(ContextGet(problem, "section_title")) >>

KeyLess(a, b) == a[1] < b[1] \/ (a[1] = b[1] /\ a[2] < b[2])

\* the keys of a list of problems
Keys(items) == [i \in 1..Len(items) |-> _missing_section_key(items[i])]

\* the index of the first item whose key is least
FirstLeast(keys) ==
    CHOOSE i \in 1..Len(keys) :
        /\ \A j \in 1..Len(keys) : ~KeyLess(keys[j], keys[i])
        /\ \A j \in 1..(i - 1) : KeyLess(keys[i], keys[j])

\* the items without the one at index i
Without(items, i) == SubSeq(items, 1, i - 1) \o SubSeq(items, i + 1, Len(items))

\* sorted(items, key=_missing_section_key): stable, ascending
RECURSIVE SortedByKey(_)

\* the sorted list, the first of which is the item at index i
SortedFrom(items, i) == <<items[i]>> \o SortedByKey(Without(items, i))

SortedByKey(items) ==
    IF items = <<>> THEN <<>> ELSE SortedFrom(items, FirstLeast(Keys(items)))

\* solution.apply_fix(context, problem): the one fix function of the package
_apply_fix(ctx_lines, problem) == fix_missing_section(ctx_lines, problem)

\* the state of the loop of apply_fixes after a call returned r
Applied(acc, r) == [lines |-> r.lines, results |-> Append(acc.results, r.result)]

\* the loop of apply_fixes over the sorted problems from item k on
RECURSIVE ApplyFrom(_, _, _)
ApplyFrom(items, k, acc) ==
    IF k > Len(items) THEN acc
    ELSE ApplyFrom(items, k + 1, Applied(acc, _apply_fix(acc.lines, items[k])))

\* FixReport(lines, results): the fixed copy and one result per problem tried
apply_fixes(ls, ps) ==
    ApplyFrom(SortedByKey(SelectSeq(_fixable_items(ps),
                                    LAMBDA problem : problem.code = "missing_section")),
              1, [lines |-> ls, results |-> <<>>])

(***************************************************************************)
(* coverage.py.  A date is the record DateOf builds.  A dict of missing    *)
(* dates is the sequence of its items, [label, dates], in insertion order. *)
(***************************************************************************)
\* the days from 0001-01-01 to the last day of the year before `year`
DaysBeforeYear(year) ==
    (year - 1) * 365 + ((year - 1) \div 4) - ((year - 1) \div 100) + ((year - 1) \div 400)

\* the days of `year` before the first of `month`
DAYS_BEFORE_MONTH == <<0, 31, 59, 90, 120, 151, 181, 212, 243, 273, 304, 334>>

DaysBeforeMonth(year, month) ==
    DAYS_BEFORE_MONTH[month] + (IF month > 2 /\ IsLeap(year) THEN 1 ELSE 0)

\* date.toordinal: 1 for 0001-01-01, a Monday
toordinal(day) == DaysBeforeYear(day.year) + DaysBeforeMonth(day.year, day.month) + day.day

DAY_NAMES == <<"Monday", "Tuesday", "Wednesday", "Thursday", "Friday", "Saturday", "Sunday">>

\* date.strftime("%A")
strftime_A(day) == DAY_NAMES[((toordinal(day) + 6) % 7) + 1]

\* the year of the day numbered n
YearOf(n) ==
    CHOOSE year \in (n \div 366)..((n \div 365) + 1) :
        DaysBeforeYear(year) < n /\ n <= DaysBeforeYear(year + 1)

\* the month of the n-th day of `year`
MonthOf(year, n) ==
    CHOOSE month \in 1..12 :
        /\ DaysBeforeMonth(year, month) < n
        /\ n <= DaysBeforeMonth(year, month) + DaysInMonth(year, month)

\* the n-th day of `year`, which falls in `month`
DayOfMonth(year, month, n) == DateOf(year, month, n - DaysBeforeMonth(year, month))

\* the n-th day of `year`
DayOfYear(year, n) == DayOfMonth(year, MonthOf(year, n), n)

\* the day numbered n, which falls in `year`
DayIn(year, n) == DayOfYear(year, n - DaysBeforeYear(year))

\* date.fromordinal
fromordinal(n) == DayIn(YearOf(n), n)

\* the dates the loop of _iter_dates yields before current > end: start,
\* start plus one day, and so on up to end
IterDates(first, last) == [k \in 1..(last - first + 1) |-> fromordinal(first + k - 1)]

_iter_dates(start, end) == IterDates(toordinal(start), toordinal(end))

\* date.max
DateMax == DateOf(9999, 12, 31)

\* whether the loop of _iter_dates raises OverflowError: once it has yielded
\* date.max, current += timedelta(days=1) is out of range
IterRaises(start, end) == toordinal(start) <= toordinal(end) /\ end = DateMax

\* a variant of the comparison below that takes the written name as it is
MismatchedAsWritten(weekday_name, actual) == weekday_name # lower(actual)

\* entry.weekday_name.lower() != actual.lower()
Mismatched(weekday_name, actual) == lower(weekday_name) # lower(actual)

\* whether the loop of find_weekday_mismatches appends for `entry`
IsMismatch(entry) ==
    /\ entry.date # NoDate
    /\ entry.weekday_name # ""
    /\ Mismatched(entry.weekday_name, strftime_A(entry.date))

\* the tuple (entry, actual)
Mismatch(entry) == [entry |-> entry, actual |-> strftime_A(entry.date)]

MismatchesAt(es, at) == [i \in 1..Len(at) |-> Mismatch(es[at[i]])]

find_weekday_mismatches(es) ==
    MismatchesAt(es, SelectSeq([k \in 1..Len(es) |-> k], LAMBDA k : IsMismatch(es[k])))

_weekday_mismatch_problem(entry, actual) ==
    Problem("weekday_mismatch", entry.line_no,
            [date |-> entry.date_str,
             weekday_header |-> entry.weekday_header,
             actual |-> actual])

weekday_mismatch_problems(mismatches) ==
    [i \in 1..Len(mismatches) |->
        _weekday_mismatch_problem(mismatches[i].entry, mismatches[i].actual)]

\* [d for d in _iter_dates(start, end) if d not in dates]
MissingIn(dates, start, end) ==
    SelectSeq(_iter_dates(start, end), LAMBDA d : d \notin dates)

_missing_for_range(dates, start, end) ==
    <<[label |-> isoformat(start) \o <<" ", "to", " ">> \o isoformat(end),
       dates |-> MissingIn(dates, start, end)]>>

\* the item of one year of _missing_for_years
MissingForYear(dates, year) ==
    [label |-> str(year),
     dates |-> MissingIn(dates, DateOf(year, 1, 1), DateOf(year, 12, 31))]

MissingForYears(dates, years) == [i \in 1..Len(years) |-> MissingForYear(dates, years[i])]

_missing_for_years(dates) == MissingForYears(dates, Ascending({d.year : d \in dates}))

\* find_missing_dates once the set of dates is built; start and end are
\* NoDate for None
MissingDates(dates, start, end) ==
    IF start # NoDate /\ end # NoDate
    THEN _missing_for_range(dates, start, end)
    ELSE _missing_for_years(dates)

\* whether find_missing_dates raises instead of returning, for the set of
\* dates built
MissingDatesRaises(dates, start, end) ==
    IF start # NoDate /\ end # NoDate
    THEN IterRaises(start, end)
    ELSE \E d \in dates : IterRaises(DateOf(d.year, 1, 1), DateOf(d.year, 12, 31))

find_missing_dates_raises(es, start, end) ==
    MissingDatesRaises({es[k].date : k \in {j \in 1..Len(es) : es[j].date # NoDate}},
                       start, end)

find_missing_dates(es, start, end) ==
    MissingDates({es[k].date : k \in {j \in 1..Len(es) : es[j].date # NoDate}}, start, end)

_missing_date_problem(day, label) ==
    Problem("missing_date", None, [date |-> isoformat(day), range |-> label])

\* dates if limit == 0 else dates[:limit]
Selected(dates, limit) ==
    IF limit = 0 \/ limit >= Len(dates) THEN dates ELSE Slice(dates, 0, limit)

\* the problems of one item of the dict
MissingProblemsOf(label, selected) ==
    [i \in 1..Len(selected) |-> _missing_date_problem(selected[i], label)]

missing_date_problems(missing_dates, limit) ==
    Flatten([k \in 1..Len(missing_dates) |->
                MissingProblemsOf(missing_dates[k].label,
                                  Selected(missing_dates[k].dates, limit))])

(***************************************************************************)
(* autofix.py: the missing-day fix                                         *)
(***************************************************************************)
\* f"## {day.isoformat()} ({weekday})"
_entry_header_line(day) ==
    <<"#", "#", " ">> \o isoformat(day) \o <<" ", "(", strftime_A(day), ")">>

\* the lines one template section adds to the entry
TemplateSection(section) ==
    <<HeadingLine(section[1], section[2])>> \o SECTION_TEMPLATES(section[2]) \o << <<>> >>

_entry_template_lines(day) ==
    <<_entry_header_line(day), <<>> >>
        \o Flatten([i \in 1..Len(EXPECTED_SECTIONS) |-> TemplateSection(EXPECTED_SECTIONS[i])])
        \o << <<"-", "-", "-">> >>

\* the payload of _insert_entry_lines: the entry, with a blank line before
\* it and after it where the neighbouring line is not blank
EntryPayload(ls, insert_at, entry_lines) ==
    (IF insert_at > 0 /\ strip(ls[insert_at]) # <<>> THEN << <<>> >> ELSE <<>>)
    \o entry_lines
    \o (IF insert_at < Len(ls) /\ strip(ls[insert_at + 1]) # <<>> THEN << <<>> >> ELSE <<>>)

\* lines[insert_at:insert_at] = payload
_insert_entry_lines(ls, insert_at, entry_lines) ==
    Splice(ls, insert_at, EntryPayload(ls, insert_at, entry_lines))

\* whether a line is a day header with a date that parses
HasEntryDate(line) ==
    /\ DAY_HEADER_RE(line).matched
    /\ date_fromisoformat(DAY_HEADER_RE(line).g1) # NoDate

\* the (idx, date) of the day headers at the lines `at`, idx 0-based
EntryDatesAt(ls, at) ==
    [k \in 1..Len(at) |->
        [idx |-> at[k] - 1, date |-> date_fromisoformat(DAY_HEADER_RE(ls[at[k]]).g1)]]

_extract_entry_dates(ls) ==
    EntryDatesAt(ls, Ascending({i \in 1..Len(ls) : HasEntryDate(ls[i])}))

\* the first item of `later` as the document lists them
FirstListed(later) == later[1]

\* the first item of `later`, the entries with a date after `day`, once
\* sorted by date: the earliest date, and of equal dates the one further up
FirstSorted(later) ==
    later[SetMin({k \in 1..Len(later) :
        \A j \in 1..Len(later) : toordinal(later[k].date) <= toordinal(later[j].date)})]

\* the loop of _insert_index_for_date over the sorted entries; `later` are
\* those with day < entry_date
InsertIndexAmong(ls, later) ==
    IF later = <<>> THEN Len(ls) ELSE FirstSorted(later).idx

InsertIndexOf(ls, day, entry_dates) ==
    InsertIndexAmong(ls, SelectSeq(entry_dates,
                                   LAMBDA e : toordinal(day) < toordinal(e.date)))

_insert_index_for_date(ls, day) == InsertIndexOf(ls, day, _extract_entry_dates(ls))

\* fix_missing_date once the date of the problem is parsed
FixDay(ctx_lines, problem, day) ==
    IF day = NoDate
    THEN Skipped(ctx_lines, problem, "invalid date")
    ELSE [lines |-> _insert_entry_lines(ctx_lines, _insert_index_for_date(ctx_lines, day),
                                        _entry_template_lines(day)),
          result |-> FixResult(problem, TRUE, "inserted day")]

\* fix_missing_date from the date string of the problem on
FixDate(ctx_lines, problem, date_str) ==
    IF date_str = <<>>
    THEN Skipped(ctx_lines, problem, "missing date metadata")
    ELSE FixDay(ctx_lines, problem, date_fromisoformat(date_str))

\* the buffer after the call and the FixResult returned
fix_missing_date(ctx_lines, problem) ==
    FixDate(ctx_lines, problem, ContextGet(problem, "date"))

(***************************************************************************)
(* cli.py: the problems of a parse, document-level ones first              *)
(***************************************************************************)
_collect_problem_sets(es, global_problems) ==
    global_problems \o Flatten([k \in 1..Len(es) |-> es[k].problems])

(***************************************************************************)
(* The documents the runs start from                                       *)
(***************************************************************************)
MaxLines == 4

MaxFixLines == 3

MaxHeadings == 4

MaxMainLines == 1

MaxScoreLines == 2

\* the sequences over A of length at most n
SeqsUpTo(A, n) == UNION {[1..k -> A] : k \in 0..n}

Date1 == <<"2", "0", "2", "6", "-", "0", "3", "-", "0", "2">>

Date2 == <<"2", "0", "2", "6", "-", "0", "3", "-", "0", "3">>

DayHeader(date_str, label) == <<"#", "#", " ">> \o date_str \o <<" ", "(">> \o label \o <<")">>

Header1 == DayHeader(Date1, <<"Monday">>)

Header2 == DayHeader(Date2, <<"Tuesday", " ", "off">>)

\* a level-3 heading that reads like a day header
NearHeader == <<"#">> \o Header1

Blank == <<>>

Rule == <<"-", "-", "-">>

EmptyBullet == <<"-", " ">>

TextBullet == <<"-", " ", "text">>

TextLine == <<"text">>

OtherHeading == <<"#", "#", " ", "Other">>

\* the heading of template section i (1..6) at its mandated level
Heading(i) == HeadingLine(EXPECTED_SECTIONS[i][1], EXPECTED_TITLES[i])

\* the same heading at the other level
WrongLevel(i) ==
    HeadingLine(IF EXPECTED_SECTIONS[i][1] = "##" THEN "###" ELSE "##", EXPECTED_TITLES[i])

Alphabet ==
    {Header1, Header2, NearHeader, Heading(1), Heading(4), WrongLevel(4), Heading(6),
     TextBullet, Blank}

Documents == SeqsUpTo(Alphabet, MaxLines)

FixAlphabet == {Header2, Heading(1), Heading(4), Heading(6), TextBullet, Blank, Rule}

FixDocuments == {<<Header1>> \o b : b \in SeqsUpTo(FixAlphabet, MaxFixLines)}

HeadingAlphabet ==
    {Heading(i) : i \in 1..6} \cup {WrongLevel(4), OtherHeading, TextBullet}

HeadingDocuments == {<<Header1>> \o b : b \in SeqsUpTo(HeadingAlphabet, MaxHeadings)}

\* the score line `- n/5`
RECURSIVE Numeral(_)
Numeral(n) ==
    IF n < 10 THEN <<CHOOSE c \in {"0", "1", "2", "3", "4", "5", "6", "7", "8", "9"} : DigitVal(c) = n>>
    ELSE Numeral(n \div 10) \o Numeral(n % 10)

ScoreLine(n) == <<"-", " ">> \o Numeral(n) \o <<"/", "5">>

Numerators == {0, 1, 5, 6, 10}

NoNumerator == <<"-", " ", "/", "5">>

NegativeScore == <<"-", " ", "-", "1", "/", "5">>

LetterScore == <<"-", " ", "x", "/", "5">>

ScoreAlphabet ==
    {ScoreLine(n) : n \in Numerators} \cup {NoNumerator, NegativeScore, LetterScore, Blank}

MainAlphabet == {Blank, EmptyBullet, TextBullet, TextLine, Rule, OtherHeading}

\* an entry with an optional "What happened today" section and a
\* "Final score (1/5)" section
ScoreDocuments ==
    {<<Header1>> \o main \o <<Heading(6)>> \o score :
        main \in {<<>>} \cup {<<Heading(1)>> \o m : m \in SeqsUpTo(MainAlphabet, MaxMainLines)},
        score \in SeqsUpTo(ScoreAlphabet, MaxScoreLines)}

MaxFill == 2

FillAlphabet == {TextBullet, TextLine, Blank, Rule}

\* the ways a block departs from the template: not at all, or at section
\* `at` by a heading of the wrong level, a heading left out, a heading
\* written twice, a heading that changed places with the next one, or a
\* foreign heading put after it
Variations ==
    {[kind |-> "none", at |-> 0]}
    \cup {[kind |-> k, at |-> i] : k \in {"level", "absent", "twice", "foreign"}, i \in 1..6}
    \cup {[kind |-> "swapped", at |-> i] : i \in 1..5}

\* the heading lines that stand where the heading of template section i
\* belongs
Slot(i, v) ==
    IF v.kind = "swapped" /\ v.at = i THEN <<Heading(i + 1)>>
    ELSE IF v.kind = "swapped" /\ v.at + 1 = i THEN <<Heading(i - 1)>>
    ELSE IF v.at # i THEN <<Heading(i)>>
    ELSE IF v.kind = "level" THEN <<WrongLevel(i)>>
    ELSE IF v.kind = "absent" THEN <<>>
    ELSE IF v.kind = "twice" THEN <<Heading(i), Heading(i)>>
    ELSE <<Heading(i), OtherHeading>>

\* an entry with the six headings of the template, varied by v, and the
\* lines `fill` under the heading of section `gap`
TemplateDocument(v, gap, fill) ==
    <<Header1>> \o Flatten([i \in 1..6 |-> Slot(i, v) \o (IF i = gap THEN fill ELSE <<>>)])

TemplateDocuments ==
    {TemplateDocument(v, gap, fill) :
        v \in Variations, gap \in 1..6, fill \in SeqsUpTo(FillAlphabet, MaxFill)}

MaxDays == 2

\* date strings: the first and the last day of 2026, the leap day of 2028,
\* a day February does not have, and the last day a date can hold
NewYear == <<"2", "0", "2", "6", "-", "0", "1", "-", "0", "1">>

YearEnd == <<"2", "0", "2", "6", "-", "1", "2", "-", "3", "1">>

LeapDay == <<"2", "0", "2", "8", "-", "0", "2", "-", "2", "9">>

NoSuchDay == <<"2", "0", "2", "6", "-", "0", "2", "-", "3", "0">>

LastDay == <<"9", "9", "9", "9", "-", "1", "2", "-", "3", "1">>

\* day headers: the weekday right (as written, in lower case, with a
\* remark), wrong, not a weekday, and on a date that does not exist
DayAlphabet ==
    {Header1, Header2,
     DayHeader(Date1, <<"Tuesday">>),
     DayHeader(YearEnd, <<"thursday">>),
     DayHeader(NewYear, <<"FRIDAY">>),
     DayHeader(LeapDay, <<"Tuesday">>),
     DayHeader(NoSuchDay, <<"Monday">>),
     DayHeader(Date2, <<"Someday">>),
     DayHeader(LastDay, <<"Friday">>)}

CoverageDocuments == SeqsUpTo(DayAlphabet, MaxDays)

\* --start and --end: none, or the days from 2026-02-27 to 2026-03-03
Ranges ==
    {[start |-> NoDate, end |-> NoDate],
     [start |-> DateOf(2026, 2, 27), end |-> DateOf(2026, 3, 3)]}

\* --missing-limit: every missing date, or the first two of each label
MissingLimits == {0, 2}

MaxDayLines == 4

\* day headers that repeat a date or do not, and a line between them
DayLineAlphabet ==
    {Header1, DayHeader(Date1, <<"Tuesday">>), Header2, DayHeader(NoSuchDay, <<"Monday">>),
     TextLine}

DayDocuments == SeqsUpTo(DayLineAlphabet, MaxDayLines)

MaxDateLines == 3

\* day headers in March and at the end of the year, one of them on a date
\* that does not exist, and lines between them
DateAlphabet ==
    {Header1, Header2, DayHeader(YearEnd, <<"thursday">>), DayHeader(NoSuchDay, <<"Monday">>),
     TextLine, Blank}

DateDocuments == SeqsUpTo(DateAlphabet, MaxDateLines)

\* --start and --end of the runs that fix missing days: none, or the days
\* from 2026-03-01 to 2026-03-04
DateRanges ==
    {[start |-> NoDate, end |-> NoDate],
     [start |-> DateOf(2026, 3, 1), end |-> DateOf(2026, 3, 4)]}

\* --missing-limit of those runs
DateLimit == 2

MaxContentLines == 4

\* what an entry may hold before a section is inserted: the heading of
\* "What happened today", bullets with and without text, the `---` of the
\* entry, and score lines `- 6/5` and `- x/5` outside a score section
ContentAlphabet == {Heading(1), TextBullet, EmptyBullet, Rule, ScoreLine(6), LetterScore}

ContentDocuments == {<<Header1>> \o b : b \in SeqsUpTo(ContentAlphabet, MaxContentLines)}

(***************************************************************************)
(* The runs                                                                *)
(***************************************************************************)
\* no date-coverage pass yet
NoCoverage ==
    [start |-> NoDate, end |-> NoDate, mismatches |-> <<>>, missing_dates |-> <<>>,
     problems |-> <<>>]

Load(docs) ==
    /\ lines \in docs
    /\ phase = "loaded"
    /\ entries = <<>>
    /\ problems = <<>>
    /\ context = <<>>
    /\ results = <<>>
    /\ before = <<>>
    /\ coverage = NoCoverage

\* entries, global_problems = <the value parse_journal returned>
Parsed(journal) ==
    /\ entries' = journal.entries
    /\ problems' = journal.problems

\* entries, problems = parse_journal(lines)
ParseJournal ==
    /\ phase = "loaded"
    /\ Parsed(parse_journal(lines))
    /\ phase' = "parsed"
    /\ UNCHANGED <<lines, context, results, before, coverage>>

\* a variant of the definition below: FixContext(lines=lines)
ContextOnCallersList == TRUE

\* context = FixContext(lines=list(lines)): whether the list the fix engine
\* edits in place is the caller's list itself.  list() makes a new list.
ContextIsCallersList == FALSE

\* the caller's list once the working buffer has become `buffer`
CallersList(buffer) == IF ContextIsCallersList THEN buffer ELSE lines

\* lines = fix_report.lines, then the parse of them
Reported(report) ==
    /\ context' = report.lines
    /\ results' = report.results
    /\ Parsed(parse_journal(report.lines))

\* cli._maybe_apply_fixes: apply_fixes on the problems of the parse, then a
\* fresh parse of the returned buffer
ApplyFixes ==
    /\ phase = "parsed"
    /\ Reported(apply_fixes(lines, _collect_problem_sets(entries, problems)))
    /\ before' = lines
    /\ lines' = CallersList(context')
    /\ phase' = "fixed"
    /\ UNCHANGED coverage

\* the elements of a list
Range(s) == {s[i] : i \in 1..Len(s)}

\* the missing-section problems of the parse of `lines`
MissingSectionProblems ==
    {p \in Range(_collect_problem_sets(entries, problems)) : p.code = "missing_section"}

\* the working buffer and the results after a call that returned r
Fixed(r) ==
    /\ context' = r.lines
    /\ results' = Append(results, r.result)

\* one call fix_missing_section(context, problem) on the buffer ctx
FixOn(ctx, problem) ==
    /\ Fixed(fix_missing_section(ctx, problem))
    /\ before' = ctx

\* the first call fix_missing_section(context, problem), with a problem of
\* the parse of `lines`, on a FixContext that starts as a copy of `lines`
FixMissingSection(problem) ==
    /\ phase = "parsed"
    /\ FixOn(lines, problem)
    /\ lines' = CallersList(context')
    /\ phase' = "fixing"
    /\ UNCHANGED <<entries, problems, coverage>>

\* a second call on the same FixContext, with a problem of the same parse:
\* the same one again, or another whose line number the first call may
\* have made stale
FixAgain(problem) ==
    /\ phase = "fixing"
    /\ FixOn(context, problem)
    /\ lines' = CallersList(context')
    /\ phase' = "refixed"
    /\ UNCHANGED <<entries, problems, coverage>>

\* a fresh parse of the working buffer
Reparse ==
    /\ phase = "fixing"
    /\ Parsed(parse_journal(context))
    /\ phase' = "reparsed"
    /\ UNCHANGED <<lines, context, results, before, coverage>>

\* the coverage problems of cli._collect_problem_sets
CoverageProblems(mismatches, missing_dates, missing_limit) ==
    weekday_mismatch_problems(mismatches) \o missing_date_problems(missing_dates, missing_limit)

\* mismatches, missing_dates and coverage as cli._parse_and_collect returns them
Covered(start, end, mismatches, missing_dates, missing_limit) ==
    coverage' = [start |-> start, end |-> end,
                 mismatches |-> mismatches,
                 missing_dates |-> missing_dates,
                 problems |-> CoverageProblems(mismatches, missing_dates, missing_limit)]

\* the date-coverage pass of cli._parse_and_collect over the entries of the
\* parse, for the range and the limit of the command line
\* When find_missing_dates raises, the command ends with the traceback:
\* the mismatches are computed by then, nothing else is.
CollectCoverage(start, end, missing_limit) ==
    /\ phase = "parsed"
    /\ IF find_missing_dates_raises(entries, start, end)
       THEN /\ coverage' = [NoCoverage EXCEPT !.start = start, !.end = end,
                                           !.mismatches = find_weekday_mismatches(entries)]
            /\ phase' = "raised"
       ELSE /\ Covered(start, end, find_weekday_mismatches(entries),
                       find_missing_dates(entries, start, end), missing_limit)
            /\ phase' = "covered"
    /\ UNCHANGED <<lines, entries, problems, context, results, before>>

Init == Load(Documents)

Next == ParseJournal \/ ApplyFixes

Spec == Init /\ [][Next]_vars

InitFix == Load(FixDocuments)

NextFix ==
    \/ ParseJournal
    \/ \E problem \in MissingSectionProblems : FixMissingSection(problem)
    \/ \E problem \in MissingSectionProblems : FixAgain(problem)
    \/ Reparse

SpecFix == InitFix /\ [][NextFix]_vars

InitHeadings == Load(HeadingDocuments)

NextParse == ParseJournal

SpecHeadings == InitHeadings /\ [][NextParse]_vars

InitScore == Load(ScoreDocuments)

SpecScore == InitScore /\ [][NextParse]_vars

InitCoverage == Load(CoverageDocuments)

NextCoverage ==
    \/ ParseJournal
    \/ \E range \in Ranges, missing_limit \in MissingLimits :
           CollectCoverage(range.start, range.end, missing_limit)

SpecCoverage == InitCoverage /\ [][NextCoverage]_vars

InitDays == Load(DayDocuments)

SpecDays == InitDays /\ [][NextParse]_vars

\* the missing-date problems of the coverage pass
MissingDateProblems == {p \in Range(coverage.problems) : p.code = "missing_date"}

\* one call fix_missing_date(context, problem) on the buffer ctx
FixDateOn(ctx, problem) ==
    /\ Fixed(fix_missing_date(ctx, problem))
    /\ before' = ctx

\* the first call fix_missing_date(context, problem), with a problem of the
\* coverage pass, on a FixContext that starts as a copy of `lines`
FixMissingDate(problem) ==
    /\ phase = "covered"
    /\ FixDateOn(lines, problem)
    /\ lines' = CallersList(context')
    /\ phase' = "dated"
    /\ UNCHANGED <<entries, problems, coverage>>

\* a second call on the same FixContext, with a problem of the same pass
FixDateAgain(problem) ==
    /\ phase = "dated"
    /\ FixDateOn(context, problem)
    /\ lines' = CallersList(context')
    /\ phase' = "redated"
    /\ UNCHANGED <<entries, problems, coverage>>

\* a fresh parse of the working buffer
ReparseDated ==
    /\ phase \in {"dated", "redated"}
    /\ Parsed(parse_journal(context))
    /\ phase' = "dates parsed"
    /\ UNCHANGED <<lines, context, results, before, coverage>>

InitDate == Load(DateDocuments)

NextDate ==
    \/ ParseJournal
    \/ \E range \in DateRanges : CollectCoverage(range.start, range.end, DateLimit)
    \/ \E problem \in MissingDateProblems : FixMissingDate(problem)
    \/ \E problem \in MissingDateProblems : FixDateAgain(problem)
    \/ ReparseDated

SpecDate == InitDate /\ [][NextDate]_vars

InitContent == Load(ContentDocuments)

\* a parse, one call of fix_missing_section, and a parse of the buffer
NextContent ==
    \/ ParseJournal
    \/ \E problem \in MissingSectionProblems : FixMissingSection(problem)
    \/ Reparse

SpecContent == InitContent /\ [][NextContent]_vars

InitTemplate == Load(TemplateDocuments)

SpecTemplate == InitTemplate /\ [][NextParse]_vars

(***************************************************************************)
(* Reading a document without the parser: the lines of the documents       *)
(* above are told apart by what they were built as.                        *)
(***************************************************************************)
\* the buffer the last parse read
Document == IF phase \in {"fixed", "reparsed"} THEN context ELSE lines

\* whether a line is a day header
IsDayHeaderLine(line) == line \in {Header1, Header2}

\* whether a line is the heading of template section i, at either level
IsHeadingOf(line, i) ==
    line \in {HeadingLine("##", EXPECTED_TITLES[i]), HeadingLine("###", EXPECTED_TITLES[i])}

\* the template section (1..6) a line is the heading of, 0 if it is of none
TemplateOf(line) ==
    IF \E i \in 1..6 : IsHeadingOf(line, i)
    THEN CHOOSE i \in 1..6 : IsHeadingOf(line, i)
    ELSE 0

\* the line numbers of the day headers of a document
HeaderLines(doc) == {n \in 1..Len(doc) : IsDayHeaderLine(doc[n])}

\* the line numbers of the block of the entry whose day header is on line h
BlockOf(doc, h) ==
    {n \in (h + 1)..Len(doc) : \A m \in (h + 1)..n : ~IsDayHeaderLine(doc[m])}

\* the problems of a list that have the given code and line number
CountAt(ps, code, line_no) ==
    Cardinality({i \in 1..Len(ps) : ps[i].code = code /\ ps[i].line_no = line_no})

\* the missing-section problems of a list that name the given title
CountMissing(ps, title) ==
    Cardinality({i \in 1..Len(ps) :
        ps[i].code = "missing_section" /\ ContextGet(ps[i], "section_title") = title})

(***************************************************************************)
(* C1: end-to-end autofix                                                  *)
(***************************************************************************)
\* C1, as the specification states it: once apply_fixes has run on all the
\* problems of the parse of a document and the returned buffer is parsed
\* again, no entry of it has a missing-section problem left.
C1_FixedHasNoMissingSection ==
    phase = "fixed" =>
        \A k \in 1..Len(entries) : CountCode(entries[k].problems, "missing_section") = 0

(***************************************************************************)
(* C2: idempotence of the missing-section fix                              *)
(***************************************************************************)
\* C2: after fix_missing_section has succeeded with a problem of the parse,
\* (a) a parse of the buffer finds the entry of that problem, and reports no
\* missing-section problem for the title in it, and (b) the call that
\* follows a success with the same problem is not applied, answers "section
\* already present" and leaves the buffer as it was.
C2_FixIsIdempotent ==
    /\ (phase = "reparsed" /\ results[1].applied) =>
           /\ \E k \in 1..Len(entries) : entries[k].line_no = results[1].problem.line_no
           /\ \A k \in 1..Len(entries) :
                  entries[k].line_no = results[1].problem.line_no =>
                      CountMissing(entries[k].problems,
                                   results[1].problem.context.section_title) = 0
    /\ (phase = "refixed" /\ results[1].applied /\ results[2].problem = results[1].problem) =>
           /\ ~results[2].applied
           /\ results[2].message = "section already present"
           /\ context = before

\* C2's case: a fix succeeded and the same problem was given again
C2_Witness ==
    /\ phase = "refixed"
    /\ results[1].applied
    /\ results[2].problem = results[1].problem
    /\ results[2].message = "section already present"
    /\ context = before
    /\ context # lines

(***************************************************************************)
(* C3: heading-order problems                                              *)
(***************************************************************************)
\* the recognized heading that comes last before line n in the block of
\* the entry whose header is on line h; 0 if there is none
PreviousRecognized(doc, h, n) ==
    IF \A m \in (h + 1)..(n - 1) : TemplateOf(doc[m]) = 0 THEN 0
    ELSE SetMax({m \in (h + 1)..(n - 1) : TemplateOf(doc[m]) # 0})

\* whether line n directly follows a recognized heading of higher or equal
\* template index
IsInversion(doc, h, n) ==
    /\ PreviousRecognized(doc, h, n) # 0
    /\ TemplateOf(doc[PreviousRecognized(doc, h, n)]) >= TemplateOf(doc[n])

\* whether some recognized heading of the entry above line n has a
\* template index higher than or equal to that of line n
IsBehind(doc, h, n) ==
    \E m \in (h + 1)..(n - 1) : TemplateOf(doc[m]) # 0 /\ TemplateOf(doc[m]) >= TemplateOf(doc[n])

\* C3, as the specification states it: a recognized heading has one
\* heading-order problem if it directly follows a recognized heading of
\* higher or equal template index, and none otherwise.
C3_OrderProblemsOnlyAtInversions ==
    phase = "parsed" =>
        \A n \in 2..Len(lines) :
            TemplateOf(lines[n]) # 0 =>
                CountAt(entries[1].problems, "heading_order", n)
                    = IF IsInversion(lines, 1, n) THEN 1 ELSE 0

\* C3, amended: a recognized heading has one heading-order problem if some
\* recognized heading above it in the entry, directly above or not, has a
\* higher or equal template index, and none otherwise; a line that is no
\* recognized heading has none.
C3_OrderProblemsBehindAnyEarlier ==
    phase = "parsed" =>
        \A n \in 2..Len(lines) :
            CountAt(entries[1].problems, "heading_order", n)
                = IF TemplateOf(lines[n]) # 0 /\ IsBehind(lines, 1, n) THEN 1 ELSE 0

\* C3's case: a heading in order after the heading directly above it, which
\* itself was out of order, and reported as out of order all the same
C3_Witness ==
    /\ phase = "parsed"
    /\ \E n \in 2..Len(lines) :
           /\ TemplateOf(lines[n]) # 0
           /\ PreviousRecognized(lines, 1, n) # 0
           /\ ~IsInversion(lines, 1, n)
           /\ IsInversion(lines, 1, PreviousRecognized(lines, 1, n))
           /\ CountAt(entries[1].problems, "heading_order", n) = 1

(***************************************************************************)
(* C4: which occurrence of a repeated heading is retained                  *)
(***************************************************************************)
\* the line of the first heading of template section i in the entry whose
\* header is on line h
FirstOccurrence(doc, h, i) == SetMin({n \in BlockOf(doc, h) : TemplateOf(doc[n]) = i})

\* C4, as the specification states it: the SectionInfo retained for a title
\* has the line number of the first heading of that title in the entry.
C4_FirstOccurrenceWins ==
    phase = "parsed" =>
        \A s \in 1..Len(entries[1].sections) :
            entries[1].sections[s].line_no
                = FirstOccurrence(lines, 1, EXPECTED_INDEX(entries[1].sections[s].title) + 1)

(***************************************************************************)
(* C5..C8: the "Final score (1/5)" section                                 *)
(***************************************************************************)
\* the lines under the "Final score (1/5)" heading of a one-entry document
ScoreContent(doc) ==
    SubSeq(doc, SetMax({n \in 1..Len(doc) : doc[n] = Heading(6)}) + 1, Len(doc))

\* the lines under the "What happened today" heading of a one-entry
\* document, empty if it has no such heading
MainContent(doc) ==
    IF Len(doc) >= 2 /\ doc[2] = Heading(1)
    THEN SubSeq(doc, 3, SetMin({n \in 1..Len(doc) : doc[n] = Heading(6)}) - 1)
    ELSE <<>>

\* whether a line is `- n/5` for a numerator n of the documents
IsScoreOf(line, n) == n \in Numerators /\ line = ScoreLine(n)

\* whether some line of a section has a numerator
HasScore(content) ==
    \E i \in 1..Len(content) : \E n \in Numerators : IsScoreOf(content[i], n)

\* C5, as the specification states it: a "Final score (1/5)" section whose
\* one line is `- -1/5` gives exactly one score_out_of_range problem.
C5_NegativeScoreOutOfRange ==
    (phase = "parsed" /\ ScoreContent(lines) = <<NegativeScore>>) =>
        CountCode(entries[1].problems, "score_out_of_range") = 1

\* C6, as the specification states it: a "Final score (1/5)" section whose
\* one line is `- x/5` gives exactly one invalid_score problem.
C6_LetterScoreInvalid ==
    (phase = "parsed" /\ ScoreContent(lines) = <<LetterScore>>) =>
        CountCode(entries[1].problems, "invalid_score") = 1

\* C7: the score_out_of_range problems of an entry are as many as the
\* lines `- n/5` of its score section with n > 5 (so `- 0/5` and `- 5/5`
\* give none), each on the line of the section's heading; and an entry whose
\* score section has a line with a numerator has no missing_score problem.
C7_ScoreRange ==
    phase = "parsed" =>
        /\ CountCode(entries[1].problems, "score_out_of_range")
               = Cardinality({i \in 1..Len(ScoreContent(lines)) :
                     \E n \in Numerators : n > 5 /\ IsScoreOf(ScoreContent(lines)[i], n)})
        /\ HasScore(ScoreContent(lines)) =>
               CountCode(entries[1].problems, "missing_score") = 0

\* C7's case: a score section with `- 5/5` and `- 6/5`, and one problem
C7_Witness ==
    /\ phase = "parsed"
    /\ \E i, j \in 1..Len(ScoreContent(lines)) :
           /\ ScoreContent(lines)[i] = ScoreLine(5)
           /\ ScoreContent(lines)[j] = ScoreLine(6)
    /\ CountCode(entries[1].problems, "score_out_of_range") = 1
    /\ CountCode(entries[1].problems, "missing_score") = 0

\* whether a line is genuine content: not blank, not `---`, and not a
\* bullet without a payload
IsGenuine(line) ==
    /\ strip(line) # <<>>
    /\ strip(line) # Rule
    /\ strip(line)[1] = "-" => strip(Tail(strip(line))) # <<>>

\* C8: an entry whose score section has no line with a numerator has one
\* missing_score problem if its "What happened today" section has a line of
\* genuine content, and none if that section is absent, empty or holds only
\* blank lines, `---` and empty bullets.
C8_MissingScoreGated ==
    (phase = "parsed" /\ ~HasScore(ScoreContent(lines))) =>
        CountCode(entries[1].problems, "missing_score")
            = IF \E i \in 1..Len(MainContent(lines)) : IsGenuine(MainContent(lines)[i])
              THEN 1 ELSE 0

\* C8's case: `- /5` alone under the score heading, and a bullet with text
\* under "What happened today"
C8_Witness ==
    /\ phase = "parsed"
    /\ ScoreContent(lines) = <<NoNumerator>>
    /\ MainContent(lines) = <<TextBullet>>
    /\ CountCode(entries[1].problems, "missing_score") = 1

(***************************************************************************)
(* C9: missing sections                                                    *)
(***************************************************************************)
\* the k-th day header line of a document
HeaderLine(doc, k) == Ascending(HeaderLines(doc))[k]

\* the date string and the weekday label a day header was written with
DateOfHeader(line) == IF line = Header1 THEN Date1 ELSE Date2

LabelOfHeader(line) == IF line = Header1 THEN <<"Monday">> ELSE <<"Tuesday", " ", "off">>

\* whether template section i has a heading in the block under line h
Occurs(doc, h, i) == \E n \in BlockOf(doc, h) : TemplateOf(doc[n]) = i

\* the missing-section problem the entry under line h owes for section i
MissingOf(doc, h, i) ==
    [code |-> "missing_section", line_no |-> h,
     context |-> [section_title |-> EXPECTED_TITLES[i],
                  date |-> DateOfHeader(doc[h]),
                  weekday_header |-> LabelOfHeader(doc[h])]]

\* C9: the parse has one entry per day header; for each template title
\* that has no heading, at either level, in the entry's block the entry has
\* exactly one missing-section problem, which holds the line of the day
\* header, the date string, the weekday label and the title; for a title
\* that has a heading it has none.  An entry whose only recognized heading
\* is "What happened today" has five of them and no missing_score problem.
C9_MissingSections ==
    (phase \in {"parsed", "fixed"} /\ HeaderLines(Document) # {}) =>
        /\ Len(entries) = Cardinality(HeaderLines(Document))
        /\ \A k \in 1..Len(entries) : \A i \in 1..6 :
               /\ CountMissing(entries[k].problems, EXPECTED_TITLES[i])
                      = IF Occurs(Document, HeaderLine(Document, k), i) THEN 0 ELSE 1
               /\ \A j \in 1..Len(entries[k].problems) :
                      (/\ entries[k].problems[j].code = "missing_section"
                       /\ entries[k].problems[j].context.section_title = EXPECTED_TITLES[i])
                          => entries[k].problems[j] = MissingOf(Document, HeaderLine(Document, k), i)
        /\ \A k \in 1..Len(entries) :
               (\A i \in 1..6 : Occurs(Document, HeaderLine(Document, k), i) <=> i = 1) =>
                   /\ CountCode(entries[k].problems, "missing_section") = 5
                   /\ CountCode(entries[k].problems, "missing_score") = 0

\* C9's case: two entries, the first with "What happened today" alone and
\* five missing-section problems on its header line
C9_Witness ==
    /\ phase = "parsed"
    /\ Len(entries) = 2
    /\ \A i \in 1..6 : Occurs(lines, HeaderLine(lines, 1), i) <=> i = 1
    /\ CountAt(entries[1].problems, "missing_section", HeaderLine(lines, 1)) = 5
    /\ CountAt(entries[2].problems, "missing_section", HeaderLine(lines, 2)) = 6

(***************************************************************************)
(* C10: a document without day headers                                     *)
(***************************************************************************)
\* C10: the parse of a document none of whose lines is a day header has no
\* entry and exactly one problem, of code no_day_headers and without a line
\* number, whatever headings and bullets the document holds.
C10_NoDayHeaders ==
    (phase \in {"parsed", "fixed"} /\ HeaderLines(Document) = {}) =>
        /\ entries = <<>>
        /\ Len(problems) = 1
        /\ problems[1].code = "no_day_headers"
        /\ problems[1].line_no = None

\* C10's case: template headings, a heading that reads like a day header
\* and a bullet, and no day header
C10_Witness ==
    /\ phase = "parsed"
    /\ HeaderLines(lines) = {}
    /\ \E a, b, c \in 1..Len(lines) :
           lines[a] = NearHeader /\ lines[b] = Heading(4) /\ lines[c] = TextBullet
    /\ entries = <<>>
    /\ Len(problems) = 1

(***************************************************************************)
(* C11: an entry that follows the template                                 *)
(***************************************************************************)
\* the lines of a document that begin with "#", the day header on line 1
\* left out
HashLines(doc) == SelectSeq(Tail(doc), LAMBDA line : line # <<>> /\ line[1] = "#")

\* whether the "#" lines of a one-entry document are the six headings of
\* the template, each once, at its level and in template order
FollowsTemplate(doc) == HashLines(doc) = [i \in 1..6 |-> Heading(i)]

\* the structural problems of a list
CountStructural(ps) ==
    Cardinality({i \in 1..Len(ps) :
        ps[i].code \in {"missing_section", "unexpected_heading", "heading_level",
                        "duplicate_heading", "heading_order"}})

\* C11: an entry whose block holds each of the six template headings once,
\* at its mandated level and in template order, with lines that are no
\* headings between them, has no missing_section, unexpected_heading,
\* heading_level, duplicate_heading or heading_order problem.
C11_TemplateEntryIsClean ==
    (phase = "parsed" /\ FollowsTemplate(lines)) =>
        CountStructural(entries[1].problems) = 0

\* C11's case: the six headings with a bullet and a `---` line between two
\* of them, and no structural problem
C11_Witness ==
    /\ phase = "parsed"
    /\ FollowsTemplate(lines)
    /\ \E a, b \in 1..Len(lines) : lines[a] = TextBullet /\ lines[b] = Rule
    /\ Len(entries) = 1
    /\ CountStructural(entries[1].problems) = 0

(***************************************************************************)
(* C12: the missing dates of every year that has an entry                  *)
(***************************************************************************)
\* the parsed dates of the entries
EntryDates == {entries[k].date : k \in {j \in 1..Len(entries) : entries[j].date # NoDate}}

\* the four digits of the year of every entry that has a parsed date
EntryYears ==
    {SubSeq(entries[k].date_str, 1, 4) : k \in {j \in 1..Len(entries) : entries[j].date # NoDate}}

\* the days of the calendar year `year`
Calendar(year) ==
    {[year |-> year, month |-> m, day |-> d] :
        m \in 1..12, d \in 1..31} \cap {DateOf(year, m, d) : m \in 1..12, d \in 1..31}

\* whether day a comes before day b
Earlier(a, b) ==
    \/ a.year < b.year
    \/ a.year = b.year /\ a.month < b.month
    \/ a.year = b.year /\ a.month = b.month /\ a.day < b.day

\* whether the list `dates` holds, each once and the earlier first, the
\* days of the year written `label` that are no entry's date
ListsYear(label, dates, year) ==
    /\ \A i \in 1..(Len(dates) - 1) : Earlier(dates[i], dates[i + 1])
    /\ {dates[i] : i \in 1..Len(dates)} = Calendar(year) \ EntryDates
    /\ Len(dates) = (IF year = 2026 THEN 365 ELSE Cardinality(Calendar(year)))
                        - Cardinality({d \in EntryDates : d.year = year})

\* C12: without an explicit range, find_missing_dates has a label for every
\* year that has an entry with a parsed date and for no other year; under
\* it are, ascending, exactly the days of that year that are no entry's
\* date, so their number is the days of the year (365 for 2026) less the
\* distinct entry dates of that year.
C12_MissingDatesOfEveryYear ==
    (phase \in {"covered", "raised"} /\ coverage.start = NoDate) =>
        /\ {coverage.missing_dates[i].label : i \in 1..Len(coverage.missing_dates)} = EntryYears
        /\ Len(coverage.missing_dates) = Cardinality(EntryYears)
        /\ \A i \in 1..Len(coverage.missing_dates) :
               ListsYear(coverage.missing_dates[i].label, coverage.missing_dates[i].dates,
                         Decimal(coverage.missing_dates[i].label))

\* C12's case: entries in 2026 and in the leap year 2028, one each, and the
\* 364 and 365 other days of the two years listed
C12_Witness ==
    /\ phase = "covered"
    /\ coverage.start = NoDate
    /\ Len(coverage.missing_dates) = 2
    /\ coverage.missing_dates[1].label = <<"2", "0", "2", "6">>
    /\ Len(coverage.missing_dates[1].dates) = 364
    /\ coverage.missing_dates[2].label = <<"2", "0", "2", "8">>
    /\ Len(coverage.missing_dates[2].dates) = 365
    /\ [year |-> 2028, month |-> 2, day |-> 29]
           \notin {coverage.missing_dates[2].dates[i] : i \in 1..365}

(***************************************************************************)
(* C13: weekday mismatches                                                 *)
(***************************************************************************)
\* the date string and the label a day header of DayAlphabet was written with
WrittenDate(line) == SubSeq(line, 4, 13)

WrittenLabel(line) == SubSeq(line, 16, Len(line) - 1)

\* the weekday the calendar gives the dates of DayAlphabet
CalendarDay(date_str) ==
    CASE date_str = Date1 -> "Monday"
      [] date_str = Date2 -> "Tuesday"
      [] date_str = NewYear -> "Thursday"
      [] date_str = YearEnd -> "Thursday"
      [] date_str = LeapDay -> "Tuesday"
      [] date_str = LastDay -> "Friday"
      [] OTHER -> "no such day"

\* the weekday names in the spellings of DayAlphabet
IsDayName(word) ==
    word \in {"Monday", "Tuesday", "thursday", "FRIDAY", "Friday"}

SameDayName(a, b) ==
    \E names \in {{"Monday"}, {"Tuesday"}, {"Thursday", "thursday"}, {"Friday", "FRIDAY"}} :
        a \in names /\ b \in names

\* whether a day header states a weekday, on a date that exists, other than
\* the one the calendar gives that date
StatesWrongDay(line) ==
    /\ CalendarDay(WrittenDate(line)) # "no such day"
    /\ IsDayName(line[16])
    /\ ~SameDayName(line[16], CalendarDay(WrittenDate(line)))

\* whether the mismatch records of the entry at line k are as owed: one,
\* with the calendar's weekday, if the header states a wrong day, else none
MismatchOwed(k, records) ==
    /\ Len(records) = (IF StatesWrongDay(lines[k]) THEN 1 ELSE 0)
    /\ \A i \in 1..Len(records) : records[i].actual = CalendarDay(WrittenDate(lines[k]))

\* the same for the weekday_mismatch problems at line k
MismatchProblemOwed(k, ps) ==
    /\ Len(ps) = (IF StatesWrongDay(lines[k]) THEN 1 ELSE 0)
    /\ \A i \in 1..Len(ps) :
           /\ ps[i].context.weekday_header = WrittenLabel(lines[k])
           /\ ps[i].context.actual = CalendarDay(WrittenDate(lines[k]))

\* C13: for every entry with a parsed date and a recognized weekday name
\* there is exactly one mismatch record, and one weekday_mismatch problem,
\* iff the stated weekday differs, whatever its case, from the actual one;
\* the problem carries the header text as stated and the actual weekday;
\* an entry whose date does not parse or whose weekday is not recognized
\* gets none.
C13_WeekdayMismatches ==
    /\ phase \in {"covered", "raised"} =>
           \A k \in 1..Len(lines) :
               MismatchOwed(k, SelectSeq(coverage.mismatches, LAMBDA m : m.entry.line_no = k))
    /\ phase = "covered" =>
           \A k \in 1..Len(lines) :
               MismatchProblemOwed(k, SelectSeq(coverage.problems,
                   LAMBDA p : p.code = "weekday_mismatch" /\ p.line_no = k))

\* C13's case: `thursday` on a Thursday and `FRIDAY` on a Thursday: one
\* record and one problem, for the second entry
C13_Witness ==
    /\ phase = "covered"
    /\ lines = <<DayHeader(YearEnd, <<"thursday">>), DayHeader(NewYear, <<"FRIDAY">>)>>
    /\ Len(coverage.mismatches) = 1
    /\ coverage.mismatches[1].entry.line_no = 2
    /\ coverage.mismatches[1].actual = "Thursday"
    /\ \E i \in 1..Len(coverage.problems) :
           /\ coverage.problems[i].code = "weekday_mismatch"
           /\ coverage.problems[i].line_no = 2
           /\ coverage.problems[i].context.weekday_header = <<"FRIDAY">>

(***************************************************************************)
(* C14: duplicate dates                                                    *)
(***************************************************************************)
\* whether line k of the document is a day header on a date that exists
IsDatedHeader(k) == lines[k] # TextLine /\ WrittenDate(lines[k]) # NoSuchDay

\* the lines above k with a day header on the date of line k
SameDateAbove(k) ==
    {j \in 1..(k - 1) : lines[j] # TextLine /\ WrittenDate(lines[j]) = WrittenDate(lines[k])}

\* a line number as Python prints it
Printed(n) == <<<<"1">>, <<"2">>, <<"3">>, <<"4">>, <<"5">>, <<"6">>, <<"7">>, <<"8">>, <<"9">>>>[n]

\* whether the duplicate_date problems at line k are as owed: one, naming
\* the line in `above` nearest the top, if `above` is not empty, else none
DuplicateOwed(k, above, ps) ==
    /\ Len(ps) = (IF IsDatedHeader(k) /\ above # {} THEN 1 ELSE 0)
    /\ \A i \in 1..Len(ps) :
           /\ ps[i].context.first_line = Printed(SetMin(above))
           /\ ps[i].context.date = WrittenDate(lines[k])

\* C14: every entry whose parsed date is that of an earlier entry gets
\* exactly one duplicate_date problem, at its own header line, whose
\* first_line is the header line of the first entry with that date, also
\* when it is the third with the date; the first entry with a date and an
\* entry whose date does not parse get none.
C14_DuplicateDates ==
    phase = "parsed" =>
        /\ \A k \in 1..Len(lines) :
               DuplicateOwed(k, SameDateAbove(k),
                   SelectSeq(problems, LAMBDA p : p.code = "duplicate_date" /\ p.line_no = k))
        /\ \A i \in 1..Len(problems) :
               problems[i].code = "duplicate_date" => problems[i].line_no \in 1..Len(lines)

\* C14's case: a date on the lines 1, 3 and 4; the lines 3 and 4 each have
\* one problem that names line 1
C14_Witness ==
    /\ phase = "parsed"
    /\ lines = <<Header1, TextLine, DayHeader(Date1, <<"Tuesday">>), Header1>>
    /\ Len(problems) = 2
    /\ problems[1].line_no = 3 /\ problems[1].context.first_line = <<"1">>
    /\ problems[2].line_no = 4 /\ problems[2].context.first_line = <<"1">>

Owed(doc) == {<<h, i>> \in HeaderLines(doc) \X (1..6) : ~Occurs(doc, h, i)}

\* whether the fix of problem p comes before that of problem q in the
\* batch: the entry further down first, and within an entry the section
\* that comes first in the template
BatchBefore(p, q) ==
    \/ p.line_no > q.line_no
    \/ /\ p.line_no = q.line_no
       /\ EXPECTED_INDEX(p.context.section_title) < EXPECTED_INDEX(q.context.section_title)

InTemplateOrder(doc, h) ==
    \A m, n \in BlockOf(doc, h) :
        (m < n /\ TemplateOf(doc[m]) # 0 /\ TemplateOf(doc[n]) # 0) =>
            TemplateOf(doc[m]) < TemplateOf(doc[n])

\* the lines of the entry under line h that are headings of section t
HeadingsOfSection(doc, h, t) == {n \in BlockOf(doc, h) : TemplateOf(doc[n]) = t}

\* whether the heading of section t on line n stands after every recognized
\* heading of the entry that comes before it in the template and before
\* every one that comes after it
BetweenHeadings(doc, h, t, n) ==
    \A m \in BlockOf(doc, h) :
        /\ (TemplateOf(doc[m]) # 0 /\ TemplateOf(doc[m]) < t) => m < n
        /\ TemplateOf(doc[m]) > t => n < m

\* whether the heading of section t on line n stands before the `---` of
\* the entry, if no heading of the entry comes after it in the template
BeforeRule(doc, h, t, n) ==
    (\A m \in BlockOf(doc, h) : TemplateOf(doc[m]) <= t) =>
        \A m \in BlockOf(doc, h) : doc[m] = Rule => n < m

\* whether section t of the entry under line h has one heading, and that
\* in its place
WellPlaced(doc, h, t) ==
    /\ Cardinality(HeadingsOfSection(doc, h, t)) = 1
    /\ \A n \in HeadingsOfSection(doc, h, t) :
           BetweenHeadings(doc, h, t, n) /\ BeforeRule(doc, h, t, n)

\* the entry and the section of the first fix
FixedEntry == results[1].problem.line_no

FixedSection == EXPECTED_INDEX(results[1].problem.context.section_title) + 1

\* C17, as the specification states it: when fix_missing_section succeeds
\* on an entry whose recognized headings are in template order, the new
\* heading stands after every recognized heading of lower template
\* position and before every one of higher position, and before the `---`
\* of the entry when there is no higher one; a parse of the buffer then
\* reports no heading_order problem for the entry.
C17_InsertedInTemplateOrder ==
    (phase \in {"fixing", "reparsed"} /\ results[1].applied
        /\ InTemplateOrder(lines, FixedEntry)) =>
            /\ WellPlaced(context, FixedEntry, FixedSection)
            /\ phase = "reparsed" =>
                   \A k \in 1..Len(entries) :
                       entries[k].line_no = FixedEntry =>
                           CountCode(entries[k].problems, "heading_order") = 0

(***************************************************************************)
(* C18: the heading-order rule and its running minimum                     *)
(***************************************************************************)
\* expected_pos once the loop of _validate_headings has passed line n of a
\* one-entry document
RunningMinimum(n) ==
    _validate_headings(_collect_headings(SubSeq(lines, 2, n)), 1).expected_pos

\* the highest template position (1..6) of a recognized heading on the
\* lines 2..n, 0 if there is none: the template index plus one
HighestSoFar(n) == SetMax({0} \cup {TemplateOf(lines[m]) : m \in 2..n})

\* C18: scanning the headings of an entry from the top, a recognized
\* heading gets a heading_order problem iff a recognized heading above it
\* (out of order, of the wrong level or a duplicate included, unexpected
\* titles left out) has a template index higher than or equal to its own;
\* the running minimum never decreases, and after every line it is the
\* highest template index plus one of the recognized headings passed.
C18_RunningMinimum ==
    phase = "parsed" =>
        \A n \in 2..Len(lines) :
            /\ TemplateOf(lines[n]) # 0 =>
                   (CountAt(entries[1].problems, "heading_order", n) = 1
                        <=> \E m \in 2..(n - 1) :
                                TemplateOf(lines[m]) # 0
                                    /\ TemplateOf(lines[m]) - 1 >= TemplateOf(lines[n]) - 1)
            /\ CountAt(entries[1].problems, "heading_order", n) \in {0, 1}
            /\ RunningMinimum(n) = HighestSoFar(n)
            /\ RunningMinimum(n - 1) <= RunningMinimum(n)

\* C18's case: a heading of the wrong level, an unexpected heading, and a
\* heading that is out of order behind the first: the running minimum stays
\* at the first heading's position and the third line is reported
C18_Witness ==
    /\ phase = "parsed"
    /\ lines = <<Header1, WrongLevel(4), OtherHeading, Heading(1), Heading(4)>>
    /\ RunningMinimum(2) = 4
    /\ RunningMinimum(5) = 4
    /\ CountAt(entries[1].problems, "heading_order", 3) = 0
    /\ CountAt(entries[1].problems, "heading_order", 4) = 1
    /\ CountAt(entries[1].problems, "heading_order", 5) = 1

(***************************************************************************)
(* C19: blank lines around an inserted section                             *)
(***************************************************************************)
\* the line of the heading the first fix inserted
InsertedHeading == SetMin(HeadingsOfSection(context, FixedEntry, FixedSection))

\* the last line of what the fix inserted under that heading: the lines of
\* the section template
LastInserted ==
    InsertedHeading + Len(SECTION_TEMPLATES(results[1].problem.context.section_title))

IsBlankLine(doc, n) == n \in 1..Len(doc) /\ strip(doc[n]) = <<>>

\* the pairs of blank lines in a row of a buffer
DoubledBlanks(doc) ==
    Cardinality({n \in 1..(Len(doc) - 1) : IsBlankLine(doc, n) /\ IsBlankLine(doc, n + 1)})

\* C19, as the specification states it: after a successful
\* fix_missing_section the line before the inserted heading is blank, the
\* line after the last inserted template line is blank or the buffer ends
\* there, and the splice has made no two blank lines in a row.
C19_BlankLinesAroundSection ==
    (phase = "fixing" /\ results[1].applied) =>
        /\ IsBlankLine(context, InsertedHeading - 1)
        /\ LastInserted = Len(context) \/ IsBlankLine(context, LastInserted + 1)
        /\ DoubledBlanks(context) <= DoubledBlanks(before)

(***************************************************************************)
(* C20: the missing-day fix, applied twice                                 *)
(***************************************************************************)
\* the day headers of a buffer that are written with the date string
HeadersOn(doc, date_str) ==
    {n \in 1..Len(doc) : Len(doc[n]) >= 13 /\ SubSeq(doc[n], 1, 13) = <<"#", "#", " ">> \o date_str}

\* C20, as the specification states it: fix_missing_date for a date, on a
\* buffer that already has a day header for that date, inserts no second
\* entry: the second of two calls with the same problem leaves the buffer
\* as the first left it, and a parse of it reports no duplicate_date
\* problem for the date.
C20_MissingDateFixIsIdempotent ==
    (phase \in {"redated", "dates parsed"} /\ Len(results) = 2
        /\ results[1].applied /\ results[2].problem = results[1].problem) =>
            /\ context = before
            /\ Cardinality(HeadersOn(context, results[1].problem.context.date)) = 1
            /\ phase = "dates parsed" =>
                   \A i \in 1..Len(problems) :
                       problems[i].code = "duplicate_date" =>
                           problems[i].context.date # results[1].problem.context.date


(***************************************************************************)
(* C21: where the missing-day fix puts the entry                           *)
(***************************************************************************)
\* the lines of a buffer written as day headers, and those of them on a
\* date that exists
DayLines(doc) ==
    {n \in 1..Len(doc) : Len(doc[n]) >= 13 /\ SubSeq(doc[n], 1, 3) = <<"#", "#", " ">>}

DatedLines(doc) == {n \in DayLines(doc) : WrittenDate(doc[n]) # NoSuchDay}

\* a date string as the number yyyymmdd
Stamp(date_str) ==
    10000 * Decimal(SubSeq(date_str, 1, 4)) + 100 * Decimal(SubSeq(date_str, 6, 7))
        + Decimal(SubSeq(date_str, 9, 10))

StampAt(doc, n) == Stamp(WrittenDate(doc[n]))

\* whether the dated headers of a buffer are in ascending order of date
AscendingDates(doc) ==
    \A m, n \in DatedLines(doc) : m < n => StampAt(doc, m) <= StampAt(doc, n)

\* the date string of the last call, and the dated headers of the buffer it
\* was given that are on a later date
TargetDate == results[Len(results)].problem.context.date

LaterLines == {n \in DatedLines(before) : StampAt(before, n) > Stamp(TargetDate)}

\* the number of lines of the buffer that stay above the new entry: those
\* above the first later header in order of date (of headers on one date the
\* one further up), all of them if no header is later
LinesAbove ==
    IF LaterLines = {}
    THEN Len(before)
    ELSE SetMin({n \in LaterLines :
             \A m \in LaterLines : StampAt(before, n) <= StampAt(before, m)}) - 1

\* the lines the last call added, taken as a splice at LinesAbove
AddedLines == (LinesAbove + 1)..(LinesAbove + Len(context) - Len(before))

\* the day headers among them
NewHeaders == AddedLines \cap DayLines(context)

\* the last header of the given buffer on a date up to the target, 0 if none
PreviousHeader ==
    SetMax({0} \cup {n \in DatedLines(before) : StampAt(before, n) <= Stamp(TargetDate)})

\* the lines of the entry under that header
PreviousEntry ==
    {n \in PreviousHeader..Len(before) :
        n >= 1 /\ \A m \in (PreviousHeader + 1)..n : m \notin DayLines(before)}

\* whether the state is that after a call of fix_missing_date that was applied
DayInserted ==
    /\ phase \in {"dated", "redated"}
    /\ results # <<>>
    /\ results[Len(results)].applied

\* C21: an applied fix_missing_date splices the new entry, one day header
\* for the target date with its template, in front of the first existing
\* dated header (in order of date) whose date exceeds the target, or at the
\* end of the buffer if none does, and changes no other line.  For a buffer
\* whose dated headers are in ascending order the headers are in ascending
\* order afterwards, strictly so if they were and the date is new, and every
\* line of the previous entry stays where it was, above the new header.
C21_InsertedInDateOrder ==
    DayInserted =>
        /\ Len(context) > Len(before)
        /\ SubSeq(context, 1, LinesAbove) = SubSeq(before, 1, LinesAbove)
        /\ SubSeq(context, LinesAbove + Len(context) - Len(before) + 1, Len(context))
               = SubSeq(before, LinesAbove + 1, Len(before))
        /\ Cardinality(NewHeaders) = 1
        /\ \A h \in NewHeaders : WrittenDate(context[h]) = TargetDate
        /\ AscendingDates(before) =>
               /\ AscendingDates(context)
               /\ ((\A m, n \in DatedLines(before) :
                        m < n => StampAt(before, m) < StampAt(before, n))
                    /\ HeadersOn(before, TargetDate) = {})
                       => (\A m, n \in DatedLines(context) :
                               m < n => StampAt(context, m) < StampAt(context, n))
               /\ \A n \in PreviousEntry, h \in NewHeaders :
                       n < h /\ context[n] = before[n]

\* the entry went between two entries of a buffer in ascending order
C21_Witness ==
    /\ DayInserted
    /\ AscendingDates(before)
    /\ PreviousHeader > 0
    /\ Cardinality(PreviousEntry) > 1
    /\ LaterLines # {}

(***************************************************************************)
(* C22: fixes that fail                                                    *)
(***************************************************************************)
\* the results of a batch that are about the missing section <<h, i>>
ResultsAbout(h, i) ==
    {k \in 1..Len(results) :
        /\ results[k].problem.code = "missing_section"
        /\ results[k].problem.line_no = h
        /\ results[k].problem.context.section_title = EXPECTED_TITLES[i]}

RECURSIVE Embeds(_, _)
Embeds(a, b) ==
    IF a = <<>> THEN TRUE
    ELSE IF b = <<>> THEN FALSE
    ELSE IF Head(a) = Head(b) THEN Embeds(Tail(a), Tail(b))
    ELSE Embeds(a, Tail(b))

\* the day-header lines of a buffer, from the top down
DayHeadersOf(doc) == SelectSeq(doc, IsDayHeaderLine)

\* the last call, and whether it was applied
LastFix == results[Len(results)]

\* the header of the entry the problem of the last call was reported for:
\* in the buffer given to the call it is as many-th day header as it was in
\* the document
TargetHeader ==
    HeaderLine(before, Cardinality({n \in HeaderLines(lines) : n <= LastFix.problem.line_no}))

\* whether the last call changed the buffer by a splice of new lines only,
\* all of them below line t and above the day header that follows it
InsertedUnder(t) ==
    \E at \in t..Len(before) :
        /\ SubSeq(context, 1, at) = SubSeq(before, 1, at)
        /\ SubSeq(context, at + Len(context) - Len(before) + 1, Len(context))
               = SubSeq(before, at + 1, Len(before))
        /\ \A n \in (at + 1)..(at + Len(context) - Len(before)) : n \in BlockOf(context, t)

\* whether the calls came in the order of the batch: none for an entry
\* further down than that of an applied call before it
InBatchOrder ==
    (Len(results) = 2 /\ results[1].applied) =>
        results[2].problem.line_no <= results[1].problem.line_no

\* C23, as the specification states it: after any sequence of calls of
\* fix_missing_section the document is a subsequence of the buffer, the day
\* headers of the buffer are those of the document, and the lines a call
\* inserted lie between the header of the entry its problem was reported
\* for and the day header that follows.
C23_FixOnlyInserts ==
    phase \in {"fixing", "refixed"} =>
        /\ Embeds(lines, context)
        /\ DayHeadersOf(context) = DayHeadersOf(lines)
        /\ ~LastFix.applied => context = before
        /\ LastFix.applied => Len(context) > Len(before) /\ InsertedUnder(TargetHeader)

\* what does hold after any two calls: the document is a subsequence of the
\* buffer and the day headers are unchanged, and when the calls come in the
\* order of the batch the line number of the problem is still the line of
\* the header of its entry, and the inserted lines lie under it
InsertsOnlyInBatchOrder ==
    phase \in {"fixing", "refixed"} =>
        /\ Embeds(lines, context)
        /\ DayHeadersOf(context) = DayHeadersOf(lines)
        /\ ~LastFix.applied => context = before
        /\ (LastFix.applied /\ InBatchOrder) =>
               /\ Len(context) > Len(before)
               /\ TargetHeader = LastFix.problem.line_no
               /\ InsertedUnder(LastFix.problem.line_no)


(***************************************************************************)
(* C24: the content of an inserted section                                 *)
(***************************************************************************)
\* the codes of the content rules of a section
ContentCodes ==
    {"missing_bullet", "missing_short_term", "missing_long_term", "missing_helped",
     "missing_hurt", "missing_score", "invalid_score", "score_out_of_range"}

\* the content-rule problems a parse reports at line n
ContentProblemsAt(n) ==
    UNION {{<<k, i>> : i \in {j \in 1..Len(entries[k].problems) :
                                 /\ entries[k].problems[j].code \in ContentCodes
                                 /\ entries[k].problems[j].line_no = n}} :
           k \in 1..Len(entries)}

\* the lines of the section under the heading on line h: those below it
\* down to the next heading
SectionUnder(doc, h) ==
    {n \in (h + 1)..Len(doc) :
        \A m \in (h + 1)..n : TemplateOf(doc[m]) = 0 /\ ~IsDayHeaderLine(doc[m])}

\* the content-rule problems with the given code at the inserted heading
CountInserted(code) ==
    Cardinality({p \in ContentProblemsAt(InsertedHeading) :
        entries[p[1]].problems[p[2]].code = code})

\* the lines under the inserted heading that are the given score line
ScoreLinesUnder(line) ==
    {n \in SectionUnder(context, InsertedHeading) : context[n] = line}

\* the headings of "What happened today" in the buffer, and whether a line
\* of genuine content stands under one of them
MainHeadings == {n \in 1..Len(context) : TemplateOf(context[n]) = 1}

GenuineUnder(h) == \E n \in SectionUnder(context, h) : IsGenuine(context[n])

\* whether the state is that of the parse after an applied fix
FixParsed == phase = "reparsed" /\ results[1].applied

\* C24, as the specification states it: the parse of the buffer after a
\* successful fix_missing_section reports no content-rule problem at the
\* heading of the inserted section, whichever the title and whatever the
\* entry held before.
C24_InsertedSectionIsClean == FixParsed => ContentProblemsAt(InsertedHeading) = {}

\* C24, amended: the parse reports no missing-bullet, missing-short-term,
\* missing-long-term, missing-helped or missing-hurt problem at the inserted
\* section, and no score problem at an inserted section other than "Final
\* score (1/5)".  At an inserted score section, whose template `- /5` has
\* no numerator, it reports score-out-of-range and invalid-score problems
\* only for score lines the entry held that the section takes in, one for
\* each `- 6/5`; it reports no missing-score problem when the section takes
\* in a line with a numerator or "What happened today" has no genuine
\* content, and one when the section takes in no score line and "What
\* happened today" has genuine content.
C24_InsertedSectionCleanButForScore ==
    FixParsed =>
        /\ \A code \in ContentCodes \ {"missing_score", "invalid_score", "score_out_of_range"} :
               CountInserted(code) = 0
        /\ FixedSection # 6 => ContentProblemsAt(InsertedHeading) = {}
        /\ FixedSection = 6 =>
               /\ CountInserted("score_out_of_range")
                      = Cardinality(ScoreLinesUnder(ScoreLine(6)))
               /\ CountInserted("invalid_score") <= Cardinality(ScoreLinesUnder(LetterScore))
               /\ (ScoreLinesUnder(ScoreLine(6)) # {} \/ \A h \in MainHeadings : ~GenuineUnder(h))
                      => CountInserted("missing_score") = 0
               /\ (ScoreLinesUnder(ScoreLine(6)) \cup ScoreLinesUnder(LetterScore) = {}
                       /\ MainHeadings # {} /\ \A h \in MainHeadings : GenuineUnder(h))
                      => CountInserted("missing_score") = 1

\* a score section was inserted into an entry with a bullet of text under
\* "What happened today", and the parse reports a missing score at it
C24_Witness ==
    /\ FixParsed
    /\ FixedSection = 6
    /\ \E h \in MainHeadings : GenuineUnder(h)
    /\ CountInserted("missing_score") = 1
    /\ context[InsertedHeading + 1] = NoNumerator

====
